---- MODULE Spec2Model ----
(***************************************************************************)
(* Model of src/orchestrator/master_orchestrator.py: one invocation of     *)
(* run_parallel_bots (the main thread), the ThreadPoolExecutor workers     *)
(* that execute _run_bot, the as_completed collection loop, the dashboard  *)
(* pushes and the artifact write.                                          *)
(***************************************************************************)
EXTENDS Naturals, Integers, Sequences, FiniteSets, TLC

VARIABLES
  applicant_payload, \* the `applicant_payload` argument: what its "id" (or "email") is
  botsArg,          \* the `bots` argument of run_parallel_bots
  max_workers,      \* the `max_workers` argument
  sinkGS, sinkSB,   \* GOOGLE_SHEETS_WEBHOOK / SUPABASE_WEBHOOK: "unset", or set to
                    \* an endpoint that is "up" (requests succeed) or "down"
  pc,               \* position of the main thread in run_parallel_bots
  bots,             \* local `bots` after the `or` default
  task,             \* per submitted work item: "queued" | "running" | "done"
  adapterDid,       \* per work item: what the adapter behind it did (None: not invoked)
  retval,           \* per work item: the outcome of _run_bot stored in its future
  waiterInstalled,  \* as_completed has installed its waiter on the futures
  finished_futures, \* waiter.finished_futures (work item indices)
  yieldList,        \* futures as_completed is about to yield, in yield order
  pending,          \* as_completed's `pending` set
  collected,        \* work item indices in the order the loop received them
  results,          \* local `results`
  started_at,       \* local `start`
  out,              \* local `out`
  artifacts,        \* the write_text calls that succeeded: run, file token, record
  pushLog,          \* every urlopen attempt made by _push_dashboard
  exc,              \* exception propagating out of run_parallel_bots
  finishOrder,      \* work item indices in the order their futures completed
  adapterCalls,     \* work item indices, one per call of an adapter's run
  files,            \* ARTIFACT_DIR: file token -> the record the file holds
  peer,             \* a second invocation of run_parallel_bots, for one bot
  web,              \* the webhook server: responses, audit log, started threads
  mail,             \* SMTP_USER / SMTP_PASS / ALERT_TO are set, and the _send_email calls
  adapter,          \* one call of an adapter of university_bots, followed step by step
  click,            \* one call of retry_click, followed attempt by attempt
  pushing,          \* the urlopen attempts the current _push_dashboard call has yet to make
  fh                \* the artifact file write_text has opened and not yet written

vars == <<applicant_payload, botsArg, max_workers, sinkGS, sinkSB, pc, bots, task, adapterDid,
          retval, waiterInstalled, finished_futures, yieldList, pending,
          collected, results, started_at, out, artifacts, pushLog,
          exc, finishOrder, adapterCalls, files, peer, web, mail, adapter, click,
          pushing, fh>>

\* ---------------------------------------------------------------- bounds
MaxBots == 2
MaxWorkers == 2
MaxClock == 2

\* resolution of the model's clock: readings of time.time() per second
TicksPerSecond == 2

\* requests the webhook server handles in one behaviour
MaxRequests == 2

\* largest max_attempts a call of retry_click is given (the default is 3)
MaxAttempts == 4

\* ------------------------------------------------------------- constants
KnownBots == {"stellenbosch", "up", "wits", "uj", "nsfas"}
DefaultBotList == <<"stellenbosch", "up", "wits", "uj", "nsfas">>

\* identifiers, payloads and fault messages the inputs are drawn from: one
\* identifier that _run_bot resolves and one that it does not
BotIdPool == {"uj", "unknown"}
Payloads == {"p1"}
Messages == {"boom"}

SinkStates == {"unset", "up", "down"}

\* applicant payloads by what applicant_payload.get("id") or .get("email")
\* (lines 133 and 144) is: a JSON value (a str, a number, None), or a value
\* json.dumps has no encoding for, such as bytes
ApplicantPayloads == {[ref |-> "str"], [ref |-> "bytes"]}

\* what the webhook's mapping and a JSON-decoded request produce
JsonPayload == [ref |-> "str"]

None == [kind |-> "none"]

\* an empty ARTIFACT_DIR
EmptyDir == [t \in {} |-> None]

\* no second invocation, no webhook traffic
NoPeer == [pc |-> "absent", bot |-> "", started_at |-> 0, value |-> None,
           results |-> <<>>, pushing |-> <<>>, out |-> None, fh |-> None]
NoWeb == [responses |-> <<>>, audit |-> <<>>, threads |-> <<>>, handling |-> None]

\* no call of retry_click is followed
NoClick == [pc |-> "absent", max |-> 0, attempt |-> 0, tries |-> <<>>,
            sleeps |-> <<>>, exc |-> None]

\* no adapter call under way
NoAdapter ==
  [kind |-> "none", pc |-> "absent", own |-> FALSE, driver |-> "none", quits |-> 0,
   at |-> 1, done |-> <<>>, payment |-> "none", errors |-> <<>>, events |-> <<>>,
   result |-> None, caught |-> None, exc |-> None]

\* no SMTP setting present, _send_email never called
NoMail == [user |-> FALSE, pass |-> FALSE, to |-> FALSE, calls |-> <<>>]

\* what an adapter (bot.run() behind a known identifier) can do; called: the
\* adapter's run was entered
AdapterOutcomes ==
  {[kind |-> "ok", payload |-> p] : p \in Payloads}
    \cup {[kind |-> "raise", msg |-> m, called |-> TRUE] : m \in Messages}

\* the branches of _run_bot that build an applicant and a bot before run()
\* (lines 92-94, 97-99, 102-104): Applicant(**payload) or the bot's
\* constructor can raise, and then run() is not called. run_uj and run_nsfas
\* (lines 106, 109) are the adapters' own entry points
ClassAdapters == {"stellenbosch", "up", "wits"}
ConstructionFaults == {[kind |-> "raise", msg |-> m, called |-> FALSE] : m \in Messages}

RECURSIVE SeqsUpTo(_, _)
SeqsUpTo(S, n) ==
  IF n = 0 THEN {<<>>}
  ELSE LET shorter == SeqsUpTo(S, n - 1)
       IN shorter \cup {Append(s, x) : s \in {t \in shorter : Len(t) = n - 1}, x \in S}

\* all orders in which the elements of a finite set can be listed
RECURSIVE Perms(_)
Perms(S) ==
  IF S = {} THEN {<<>>}
  ELSE UNION {{<<x>> \o p : p \in Perms(S \ {x})} : x \in S}

\* ------------------------------------------------------------- _run_bot
\* variant: the chain ends in a branch that runs an adapter for any other name
Resolves_Fallthrough(bot_name) == TRUE

\* the if/elif chain of _run_bot: the identifier selects an adapter
Resolves(bot_name) == bot_name \in KnownBots

\* variant: the error entry also carries a "result" key
RunBot_BothKeys(bot_name, ao) ==
  LET did == IF Resolves(bot_name)
             THEN ao
             ELSE [kind |-> "raise", msg |-> "Unknown bot: " \o bot_name]
  IN IF did.kind = "ok"
     THEN [kind |-> "result", value |-> [bot |-> bot_name, result |-> did.payload]]
     ELSE [kind |-> "result",
           value |-> [bot |-> bot_name, result |-> "null", error |-> did.msg]]

\* variant: _run_bot without its try/except, a fault of the adapter leaves it
RunBot_NoCatch(bot_name, ao) ==
  LET did == IF Resolves(bot_name)
             THEN ao
             ELSE [kind |-> "raise", msg |-> "Unknown bot: " \o bot_name]
  IN IF did.kind = "ok"
     THEN [kind |-> "result", value |-> [bot |-> bot_name, result |-> did.payload]]
     ELSE [kind |-> "exception", msg |-> did.msg]

\* _run_bot(bot_name, payload) where the selected adapter behaves as `ao`:
\* the value the worker stores in the future
RunBot(bot_name, ao) ==
  LET did == IF Resolves(bot_name)
             THEN ao
             ELSE [kind |-> "raise", msg |-> "Unknown bot: " \o bot_name]
  IN IF did.kind = "ok"
     THEN [kind |-> "result", value |-> [bot |-> bot_name, result |-> did.payload]]
     ELSE [kind |-> "result", value |-> [bot |-> bot_name, error |-> did.msg]]

\* variant: the adapter's run is called again after it raised
AdapterCallsOf_RetryOnFault(k, ao) ==
  IF ao.kind = "raise" THEN (IF ao.called THEN <<k, k>> ELSE <<>>) ELSE <<k>>

\* the calls of the adapter's run made by the _run_bot call of work item k:
\* each branch calls it once (bot.run(), run_uj, run_nsfas), in no loop, and
\* not at all when building the applicant or the bot raised
AdapterCallsOf(k, ao) == IF ao.kind = "raise" /\ ~ao.called THEN <<>> ELSE <<k>>

\* ---------------------------------------------------- run_parallel_bots
\* variant: the default list also names the UCT adapter of university_bots
OrDefault_WithUct(b) == IF b = <<>> THEN Append(DefaultBotList, "uct") ELSE b

\* bots = bots or [...]  (None and [] are both falsy; both are <<>> here)
OrDefault(b) == IF b = <<>> THEN DefaultBotList ELSE b

\* variant: one future per distinct identifier (a dict keyed by the name)
SubmitTargets_Dedup(b) ==
  LET firsts == {i \in 1..Len(b) : \A j \in 1..(i - 1) : b[j] # b[i]}
  IN [k \in 1..Cardinality(firsts) |->
        CHOOSE i \in firsts : Cardinality({j \in firsts : j < i}) = k - 1]

\* futures = {ex.submit(_run_bot, b, payload): b for b in bots}: the k-th
\* submitted work item runs the identifier at position SubmitTargets(b)[k]
SubmitTargets(b) == [i \in 1..Len(b) |-> i]

BotOf(k) == bots[SubmitTargets(bots)[k]]

DASHBOARD_PUSH_ENABLED == sinkGS # "unset" \/ sinkSB # "unset"

\* time.time() reads the system which can be set back between two
\* readings: a reading is any value, earlier or later than the previous one
ClockReadings == 0..MaxClock

\* ThreadPoolExecutor(max_workers): a queued work item is taken only by a
\* worker thread that is not occupied, and there are at most max_workers
Busy == {k \in 1..Len(task) : task[k] = "running"}
\* variant: a thread per work item, whatever max_workers is
WorkerAvailable_Unbounded(busy, mw) == TRUE

WorkerAvailable(busy, mw) == busy < mw

\* the adapters executing right now
Executing == {k \in 1..Len(task) : task[k] = "running" /\ Resolves(BotOf(k))}

\* what the code behind a known identifier can do
OutcomesOfBot(b) ==
  AdapterOutcomes \cup (IF b \in ClassAdapters THEN ConstructionFaults ELSE {})

\* what the adapter behind work item k does. WitsBot(app).run() is followed
\* step by step in `adapter` when that call is under way: its BotResult is
\* the payload (res.__dict__) and a fault of WitsApplicant(**payload) or of
\* the constructor is the fault; any other adapter returns or raises
OutcomesFor(k) ==
  IF adapter.kind = BotOf(k)
  THEN IF adapter.pc = "returned" THEN {[kind |-> "ok", payload |-> adapter.result]}
       ELSE IF adapter.pc \in {"raised", "import_error"}
            THEN {[kind |-> "raise", msg |-> adapter.exc.msg, called |-> FALSE]}
            ELSE {}
  ELSE OutcomesOfBot(BotOf(k))

\* variant: a payload that reports its own failure is pushed as an error
BotResultEvent_Interprets(r) ==
  [event  |-> "bot_result",
   bot    |-> r.bot,
   status |-> IF "error" \in DOMAIN r THEN "error"
              ELSE IF ~r.result.success THEN "error" ELSE "ok",
   result |-> IF "result" \in DOMAIN r THEN r.result ELSE "null"]

\* the payload of the per-bot event, without its applicant_ref (passed through
\* from the applicant payload) and its ts (the time of the push)
BotResultEvent(r) ==
  [event  |-> "bot_result",
   bot    |-> r.bot,
   status |-> IF "error" \in DOMAIN r THEN "error" ELSE "ok",
   result |-> IF "result" \in DOMAIN r THEN r.result ELSE "null"]

RunCompleteEvent(o) == [event |-> "run_complete", summary |-> o]

\* line 79, body = json.dumps(payload).encode("utf-8"): the event's bot,
\* status, result and summary are what _run_bot and json-serialized adapters
\* made, and ts is a float, so the body is built unless the applicant_ref,
\* passed through from the applicant payload, is a value json.dumps rejects
\* with a TypeError (bytes, a set, an object)
Serializable(applicant) == applicant.ref # "bytes"

\* lines 80-86 of _push_dashboard(payload), after the body is built: one
\* urlopen per configured url, in the order [GOOGLE_SHEETS_WEBHOOK,
\* SUPABASE_WEBHOOK], each inside its own try/except Exception that logs
\* the failure; ok: the request succeeded
PushDashboard(payload) ==
  (IF sinkGS # "unset"
   THEN <<[sink |-> "gs", payload |-> payload, ok |-> (sinkGS = "up")]>> ELSE <<>>)
    \o (IF sinkSB # "unset"
        THEN <<[sink |-> "sb", payload |-> payload, ok |-> (sinkSB = "up")]>> ELSE <<>>)

\* lines 130-138 and 141-146 with line 79: a call of _push_dashboard is made
\* (a sink is set) and json.dumps raises TypeError before the loop over the
\* urls, outside every try; nothing in run_parallel_bots catches it
PushRaises(applicant) == DASHBOARD_PUSH_ENABLED /\ ~Serializable(applicant)

\* lines 130-138: the urlopen attempts made for one collected result
BotResultPush(applicant, r) ==
  IF DASHBOARD_PUSH_ENABLED /\ Serializable(applicant)
  THEN PushDashboard(BotResultEvent(r)) ELSE <<>>

\* lines 141-146: the urlopen attempts made for the sealed record
RunCompletePush(applicant, o) ==
  IF DASHBOARD_PUSH_ENABLED /\ Serializable(applicant)
  THEN PushDashboard(RunCompleteEvent(o)) ELSE <<>>

\* line 139: out = {"started_at": start, "ended_at": time.time(), "results": results}
SealRecord(start, now, res) == [started_at |-> start, ended_at |-> now, results |-> res]

\* line 140, int(time.time()): the file is parallel_run_<whole seconds>.json
TokenOf(t) == t \div TicksPerSecond

\* Path.write_text(data) is open(mode='w'), write(data), close. What a file
\* holds: a record (the JSON text of it), nothing, the start of a text
\* ("cut"), or a text followed by the last bytes of a longer one ("garbled")
EmptyFile == [kind |-> "empty"]
Cut(content) == [kind |-> "cut", of |-> content]
Garbled(content, cur) == [kind |-> "garbled", head |-> content, tail |-> cur]

\* open(mode='w'): creates the file, or truncates it to nothing
OpenForWrite(dir, name) ==
  [t \in (DOMAIN dir) \cup {name} |-> IF t = name THEN EmptyFile ELSE dir[t]]

\* the text is written from offset 0 of the opened file: over an empty file
\* it is the file; over what another writer has put there since the open, the
\* other text's bytes beyond the length of this one are left in place
Written(cur, content) ==
  IF cur = EmptyFile \/ cur = content THEN {content}
  ELSE {content, Garbled(content, cur)}

\* write and close: all of the text goes out (ok), or the write raises
\* (OSError) with none or a part of it in the file
WriteOutcomes(cur, content) ==
  {[file |-> f, ok |-> TRUE] : f \in Written(cur, content)}
    \cup {[file |-> cur, ok |-> FALSE]}
    \cup {[file |-> f, ok |-> FALSE] : f \in Written(cur, Cut(content))}

\* line 140 is outside any try: an exception of write_text leaves the function
WriteFailurePropagates == TRUE

\* variant: the list is replaced instead of extended
AppendResult_Overwrite(res, r) == <<r>>

\* line 128: results.append(r), done by the calling thread only
AppendResult(res, r) == Append(res, r)

\* variant: the loop waits until every pending future has finished
WaiterReady_AllFinished(ff, pend) == {ff[i] : i \in 1..Len(ff)} = pend

\* waiter.event.wait() returns once the waiter has been told of a finished
\* future (add_result sets the event)
WaiterReady(ff, pend) == ff # <<>>

\* as_completed is exhausted: nothing left to yield and `pending` is empty
LoopDone(yl, pend) == yl = <<>> /\ pend = {}

\* ------------------------------------------------------------------ Init
\* the runs followed for the dispatch and the loop: a JSON applicant payload,
\* and the dashboard push off or the Google Sheets sink alone set and failing
\* (PushSpec below takes every setting of the two sinks and the applicant
\* payload json.dumps rejects)
Init ==
  /\ applicant_payload = JsonPayload
  /\ botsArg \in {b \in SeqsUpTo(BotIdPool, MaxBots) : b # <<>>}
  /\ max_workers \in 1..MaxWorkers
  /\ sinkGS \in {"unset", "down"}
  /\ sinkSB = "unset"
  /\ pc = "begin"
  /\ bots = <<>>
  /\ task = <<>>
  /\ adapterDid = <<>>
  /\ retval = <<>>
  /\ waiterInstalled = FALSE
  /\ finished_futures = <<>>
  /\ yieldList = <<>>
  /\ pending = {}
  /\ collected = <<>>
  /\ results = <<>>
  /\ started_at = 0
  /\ out = None
  /\ artifacts = <<>>
  /\ pushLog = <<>>
  /\ exc = None
  /\ finishOrder = <<>>
  /\ adapterCalls = <<>>
  /\ files = EmptyDir
  /\ pushing = <<>>
  /\ fh = None
  /\ peer = NoPeer
  /\ web = NoWeb
  /\ mail = NoMail
  /\ adapter = NoAdapter
  /\ click = NoClick

\* --------------------------------------------------------------- actions
\* lines 121-123
Begin ==
  /\ pc = "begin"
  /\ bots' = OrDefault(botsArg)
  /\ \E now \in ClockReadings :
       /\ started_at' = now
  /\ results' = <<>>
  /\ pc' = "submit"
  /\ UNCHANGED <<pushing, fh, click, adapter, mail, adapterCalls, files, peer, web, applicant_payload, botsArg, max_workers, sinkGS, sinkSB, task, adapterDid, retval,
                 waiterInstalled, finished_futures, yieldList, pending, collected,
                 out, artifacts, pushLog, exc, finishOrder>>

\* line 125, one ex.submit
Submit ==
  /\ pc = "submit"
  /\ Len(task) < Len(SubmitTargets(bots))
  /\ task' = Append(task, "queued")
  /\ adapterDid' = Append(adapterDid, None)
  /\ retval' = Append(retval, None)
  /\ pc' = IF Len(task') = Len(SubmitTargets(bots)) THEN "as_completed" ELSE "submit"
  /\ UNCHANGED <<pushing, fh, click, adapter, mail, adapterCalls, files, peer, web, applicant_payload, botsArg, max_workers, sinkGS, sinkSB, bots, waiterInstalled,
                 finished_futures, yieldList, pending, collected, results,
                 started_at, out, artifacts, pushLog, exc, finishOrder>>

\* a free worker thread takes the oldest queued work item and calls _run_bot
Start(k) ==
  /\ task[k] = "queued"
  /\ \A j \in 1..(k - 1) : task[j] # "queued"
  /\ WorkerAvailable(Cardinality(Busy), max_workers)
  /\ task' = [task EXCEPT ![k] = "running"]
  /\ UNCHANGED <<pushing, fh, click, adapter, mail, adapterCalls, files, peer, web, applicant_payload, botsArg, max_workers, sinkGS, sinkSB, pc, bots, adapterDid, retval,
                 waiterInstalled, finished_futures, yieldList, pending, collected,
                 results, started_at, out, artifacts, pushLog, exc,
                 finishOrder>>

\* the _run_bot call of work item k ends (lines 89-116) and the worker stores
\* its outcome in the future (Future.set_result / set_exception): the future
\* becomes FINISHED and an installed waiter is notified
RunBotEnds(k) ==
  /\ task[k] = "running"
  /\ \E ao \in OutcomesFor(k) :
       /\ retval' = [retval EXCEPT ![k] = RunBot(BotOf(k), ao)]
       /\ adapterDid' = [adapterDid EXCEPT ![k] = IF Resolves(BotOf(k)) THEN ao ELSE None]
       /\ adapterCalls' = adapterCalls \o (IF Resolves(BotOf(k)) THEN AdapterCallsOf(k, ao) ELSE <<>>)
  /\ task' = [task EXCEPT ![k] = "done"]
  /\ finishOrder' = Append(finishOrder, k)
  /\ finished_futures' = IF waiterInstalled THEN Append(finished_futures, k)
                         ELSE finished_futures
  /\ UNCHANGED <<pushing, fh, click, adapter, mail, files, peer, web, applicant_payload, botsArg, max_workers, sinkGS, sinkSB, pc, bots, waiterInstalled,
                 yieldList, pending, collected, results, started_at, out,
                 artifacts, pushLog, exc>>

\* variant: the futures are not awaited, the record is built after submitting
AsCompleted_NoWait ==
  /\ pc = "as_completed"
  /\ pc' = "seal"
  /\ UNCHANGED <<pushing, fh, click, adapter, mail, adapterCalls, files, peer, web, applicant_payload, botsArg, max_workers, sinkGS, sinkSB,
                 bots, task, adapterDid, retval, waiterInstalled, finished_futures,
                 yieldList, pending, collected, results, started_at, out,
                 artifacts, pushLog, exc, finishOrder>>

\* line 126, the call of as_completed(futures): the futures already FINISHED
\* are collected into a set and yielded first, in the set's iteration order;
\* the waiter is installed on the futures and stays until the generator ends
\* or is closed, when its `finally` removes it
AsCompleted ==
  /\ pc = "as_completed"
  /\ LET finished == {k \in 1..Len(task) : task[k] = "done"}
     IN /\ pending' = (1..Len(task)) \ finished
        /\ \E order \in Perms(finished) :
             /\ yieldList' = order
             /\ pc' = IF LoopDone(order, pending') THEN "exit_with" ELSE "collect"
  /\ waiterInstalled' = (pc' # "exit_with")
  /\ UNCHANGED <<pushing, fh, click, adapter, mail, adapterCalls, files, peer, web, applicant_payload, botsArg, max_workers, sinkGS, sinkSB, bots, task, adapterDid, retval,
                 finished_futures, collected, results, started_at, out,
                 artifacts, pushLog, exc, finishOrder>>

\* as_completed waits for waiter.event and takes waiter.finished_futures
WaitCompleted ==
  /\ pc = "collect"
  /\ yieldList = <<>>
  /\ pending # {}
  /\ WaiterReady(finished_futures, pending)
  /\ yieldList' = finished_futures
  /\ finished_futures' = <<>>
  /\ UNCHANGED <<pushing, fh, click, adapter, mail, adapterCalls, files, peer, web, applicant_payload, botsArg, max_workers, sinkGS, sinkSB, pc, bots, task, adapterDid,
                 retval, waiterInstalled, pending, collected, results,
                 started_at, out, artifacts, pushLog, exc, finishOrder>>

\* lines 126-138 and line 79, the start of one iteration of the loop body:
\* fut.result(), results.append(r) and, when DASHBOARD_PUSH_ENABLED, the call
\* of _push_dashboard with the per-bot event, up to its json.dumps: a
\* TypeError there leaves the loop with no urlopen made. An exception that
\* leaves the loop closes the as_completed generator, whose `finally` takes
\* the waiter off the futures still pending
CollectOne ==
  /\ pc = "collect"
  /\ yieldList # <<>>
  /\ LET k == Head(yieldList)
         fut == retval[k]
     IN /\ yieldList' = Tail(yieldList)
        /\ pending' = pending \ {k}
        /\ collected' = Append(collected, k)
        /\ IF fut.kind = "exception"
           THEN /\ exc' = [kind |-> "bot", msg |-> fut.msg]
                /\ pc' = "exit_with"
                /\ UNCHANGED <<results, pushing>>
           ELSE /\ results' = AppendResult(results, fut.value)
                /\ pushing' = BotResultPush(applicant_payload, fut.value)
                /\ IF PushRaises(applicant_payload)
                   THEN /\ exc' = [kind |-> "push"]
                        /\ pc' = "exit_with"
                   ELSE /\ exc' = exc
                        /\ pc' = "push"
  /\ waiterInstalled' = (waiterInstalled /\ pc' # "exit_with")
  /\ UNCHANGED <<fh, click, adapter, mail, adapterCalls, files, peer, web, applicant_payload, botsArg, max_workers, sinkGS, sinkSB, bots, task, adapterDid, retval,
                 finished_futures, started_at, out,
                 artifacts, pushLog, finishOrder>>

\* lines 130-138 and _push_dashboard, lines 80-86: one urlopen (it blocks for
\* up to 10 s) per step, a failure logged by the except of line 85, then back
\* to the head of the loop; with no sink set the test of line 130 fails and
\* nothing is attempted. When as_completed has nothing left to yield the
\* generator ends and its `finally` removes the waiter
PushBotResult ==
  /\ pc = "push"
  /\ LET next == IF LoopDone(yieldList, pending) THEN "exit_with" ELSE "collect"
     IN IF pushing = <<>>
        THEN /\ pc' = next
             /\ UNCHANGED <<pushing, pushLog, exc>>
        ELSE /\ pushLog' = Append(pushLog, Head(pushing))
             /\ exc' = exc
             /\ pushing' = Tail(pushing)
             /\ pc' = IF Tail(pushing) = <<>> THEN next ELSE "push"
  /\ waiterInstalled' = (waiterInstalled /\ pc' # "exit_with")
  /\ UNCHANGED <<fh, click, adapter, mail, adapterCalls, files, peer, web, applicant_payload, botsArg, max_workers, sinkGS, sinkSB, bots, task, adapterDid, retval,
                 finished_futures, yieldList, pending, collected,
                 results, started_at, out, artifacts, finishOrder>>

\* leaving the `with` block: ThreadPoolExecutor.__exit__ is shutdown(wait=True),
\* which joins the workers after they have run every submitted work item
ExitWith ==
  /\ pc = "exit_with"
  /\ \A k \in 1..Len(task) : task[k] = "done"
  /\ pc' = IF exc = None THEN "seal" ELSE "raised"
  /\ UNCHANGED <<pushing, fh, click, adapter, mail, adapterCalls, files, peer, web, applicant_payload, botsArg, max_workers, sinkGS, sinkSB, bots, task, adapterDid, retval,
                 waiterInstalled, finished_futures, yieldList, pending, collected,
                 results, started_at, out, artifacts, pushLog, exc,
                 finishOrder>>

\* line 139
Seal ==
  /\ pc = "seal"
  /\ \E now \in ClockReadings :
       /\ out' = SealRecord(started_at, now, results)
  /\ pc' = "write"
  /\ UNCHANGED <<pushing, fh, click, adapter, mail, adapterCalls, files, peer, web, applicant_payload, botsArg, max_workers, sinkGS, sinkSB, bots, task, adapterDid, retval,
                 waiterInstalled, finished_futures, yieldList, pending, collected,
                 results, started_at, artifacts, pushLog, exc, finishOrder>>

\* line 140, up to the open of write_text: the name is read off the clock,
\* and open(mode='w') creates or truncates the file, or raises (OSError);
\* nothing catches it
OpenArtifact ==
  /\ pc = "write"
  /\ \E now \in ClockReadings, writable \in BOOLEAN :
       /\ IF writable
          THEN /\ files' = OpenForWrite(files, TokenOf(now))
               /\ fh' = [token |-> TokenOf(now)]
               /\ pc' = "writing"
               /\ UNCHANGED <<exc, pushing>>
          ELSE /\ UNCHANGED <<files, fh>>
               /\ pc' = IF WriteFailurePropagates \/ PushRaises(applicant_payload)
                        THEN "raised" ELSE "push_complete"
               /\ exc' = IF WriteFailurePropagates THEN [kind |-> "persistence"]
                         ELSE IF PushRaises(applicant_payload) THEN [kind |-> "push"]
                         ELSE exc
               /\ pushing' = IF WriteFailurePropagates THEN pushing
                             ELSE RunCompletePush(applicant_payload, out)
  /\ UNCHANGED <<click, adapter, mail, adapterCalls, peer, web, applicant_payload, botsArg, max_workers, sinkGS, sinkSB, bots, task, adapterDid, retval,
                 waiterInstalled, finished_futures, yieldList, pending, collected,
                 results, started_at, out, artifacts, pushLog, finishOrder>>

\* line 140, the write and close of write_text, and lines 141-146 with line
\* 79: the record goes into the opened file from its start, or the write
\* raises; then the run_complete event is handed to _push_dashboard when a
\* sink is set, whose json.dumps builds the body or raises
WriteArtifact ==
  /\ pc = "writing"
  /\ \E w \in WriteOutcomes(files[fh.token], out) :
       /\ files' = [files EXCEPT ![fh.token] = w.file]
       /\ fh' = None
       /\ IF w.ok
          THEN /\ artifacts' = Append(artifacts, [run |-> "main", token |-> fh.token,
                                                   record |-> out])
               /\ pc' = IF PushRaises(applicant_payload) THEN "raised" ELSE "push_complete"
               /\ exc' = IF PushRaises(applicant_payload) THEN [kind |-> "push"] ELSE exc
               /\ pushing' = RunCompletePush(applicant_payload, out)
          ELSE /\ artifacts' = artifacts
               /\ pc' = IF WriteFailurePropagates \/ PushRaises(applicant_payload)
                        THEN "raised" ELSE "push_complete"
               /\ exc' = IF WriteFailurePropagates THEN [kind |-> "persistence"]
                         ELSE IF PushRaises(applicant_payload) THEN [kind |-> "push"]
                         ELSE exc
               /\ pushing' = IF WriteFailurePropagates THEN pushing
                             ELSE RunCompletePush(applicant_payload, out)
  /\ UNCHANGED <<click, adapter, mail, adapterCalls, peer, web, applicant_payload, botsArg, max_workers, sinkGS, sinkSB, bots, task, adapterDid, retval,
                 waiterInstalled, finished_futures, yieldList, pending, collected,
                 results, started_at, out, pushLog, finishOrder>>

\* lines 141-147: one urlopen of the run_complete push per step; after the
\* last one (or with no sink set) the record is returned
PushCompleteAndReturn ==
  /\ pc = "push_complete"
  /\ IF pushing = <<>>
     THEN /\ pc' = "returned"
          /\ UNCHANGED <<pushing, pushLog, exc>>
     ELSE /\ pushLog' = Append(pushLog, Head(pushing))
          /\ exc' = exc
          /\ pushing' = Tail(pushing)
          /\ pc' = IF Tail(pushing) = <<>> THEN "returned" ELSE "push_complete"
  /\ UNCHANGED <<fh, click, adapter, mail, adapterCalls, files, peer, web, applicant_payload, botsArg, max_workers, sinkGS, sinkSB, bots, task, adapterDid, retval,
                 waiterInstalled, finished_futures, yieldList, pending, collected,
                 results, started_at, out, artifacts, finishOrder>>

Next ==
  \/ Begin
  \/ Submit
  \/ \E k \in 1..Len(task) : Start(k)
  \/ \E k \in 1..Len(task) : RunBotEnds(k)
  \/ AsCompleted
  \/ WaitCompleted
  \/ CollectOne
  \/ PushBotResult
  \/ ExitWith
  \/ Seal
  \/ OpenArtifact
  \/ WriteArtifact
  \/ PushCompleteAndReturn

Spec == Init /\ [][Next]_vars

\* ------------------------------------------------- the dashboard push
\* runs of the one registered adapter with every setting of the two sinks
\* (unset, set and answering, set and failing), either applicant payload
\* (one json.dumps serializes, one it rejects), any pool size
PushInit ==
  /\ applicant_payload \in ApplicantPayloads
  /\ botsArg \in {b \in SeqsUpTo({"uj"}, MaxBots) : b # <<>>}
  /\ max_workers \in 1..MaxWorkers
  /\ sinkGS \in SinkStates
  /\ sinkSB \in SinkStates
  /\ pc = "begin" /\ bots = <<>> /\ task = <<>> /\ adapterDid = <<>> /\ retval = <<>>
  /\ waiterInstalled = FALSE /\ finished_futures = <<>> /\ yieldList = <<>>
  /\ pending = {} /\ collected = <<>> /\ results = <<>>
  /\ started_at = 0 /\ out = None /\ artifacts = <<>> /\ pushLog = <<>>
  /\ exc = None /\ finishOrder = <<>> /\ adapterCalls = <<>>
  /\ files = EmptyDir
  /\ pushing = <<>>
  /\ fh = None
  /\ peer = NoPeer
  /\ web = NoWeb
  /\ mail = NoMail
  /\ adapter = NoAdapter
  /\ click = NoClick

PushSpec == PushInit /\ [][Next]_vars

\* ------------------------------------------- a second, concurrent run
\* Two requests start two threads that each call run_parallel_bots (line
\* 165). The second invocation is for one bot and is followed line by line,
\* its executor and worker being the one step in which _run_bot ends.

\* lines 121-123 of the second invocation
PeerBegin ==
  /\ peer.pc = "begin"
  /\ \E now \in ClockReadings :
       /\ peer' = [peer EXCEPT !.pc = "run", !.started_at = now]
  /\ UNCHANGED <<pushing, fh, click, adapter, mail, adapterCalls, files, web, applicant_payload, botsArg, max_workers, sinkGS, sinkSB, pc, bots,
                 task, adapterDid, retval, waiterInstalled, finished_futures,
                 yieldList, pending, collected, results, started_at, out,
                 artifacts, pushLog, exc, finishOrder>>

\* lines 124-125 of the second invocation and its worker: the _run_bot call
\* ends and its outcome is stored in the future
PeerRunBotEnds ==
  /\ peer.pc = "run"
  /\ \E ao \in OutcomesOfBot(peer.bot) :
       peer' = [peer EXCEPT !.pc = "collect", !.value = RunBot(peer.bot, ao).value]
  /\ UNCHANGED <<pushing, fh, click, adapter, mail, adapterCalls, files, web, applicant_payload, botsArg, max_workers, sinkGS, sinkSB, pc, bots,
                 task, adapterDid, retval, waiterInstalled, finished_futures,
                 yieldList, pending, collected, results, started_at, out,
                 artifacts, pushLog, exc, finishOrder>>

\* lines 126-130 of the second invocation, given the same applicant payload,
\* up to the json.dumps of its _push_dashboard call
PeerCollect ==
  /\ peer.pc = "collect"
  /\ peer' = [peer EXCEPT !.pc = IF PushRaises(applicant_payload) THEN "raised" ELSE "push",
                           !.results = AppendResult(@, peer.value),
                           !.pushing = BotResultPush(applicant_payload, peer.value)]
  /\ UNCHANGED <<pushing, fh, click, adapter, mail, adapterCalls, files, web, applicant_payload, botsArg, max_workers, sinkGS, sinkSB, pc, bots,
                 task, adapterDid, retval, waiterInstalled, finished_futures,
                 yieldList, pending, collected, results, started_at, out,
                 artifacts, pushLog, exc, finishOrder>>

\* lines 130-138 of the second invocation, one urlopen per step
PeerPush ==
  /\ peer.pc = "push"
  /\ IF peer.pushing = <<>>
     THEN /\ peer' = [peer EXCEPT !.pc = "seal"]
          /\ pushLog' = pushLog
     ELSE /\ pushLog' = Append(pushLog, Head(peer.pushing))
          /\ peer' = [peer EXCEPT !.pushing = Tail(@),
                                   !.pc = IF Tail(peer.pushing) = <<>> THEN "seal" ELSE "push"]
  /\ UNCHANGED <<pushing, fh, click, adapter, mail, adapterCalls, files, web, applicant_payload, botsArg, max_workers, sinkGS, sinkSB, pc, bots,
                 task, adapterDid, retval, waiterInstalled, finished_futures,
                 yieldList, pending, collected, results, started_at, out,
                 artifacts, exc, finishOrder>>

\* line 139 of the second invocation
PeerSeal ==
  /\ peer.pc = "seal"
  /\ \E now \in ClockReadings :
       /\ peer' = [peer EXCEPT !.pc = "write",
                                !.out = SealRecord(peer.started_at, now, peer.results)]
  /\ UNCHANGED <<pushing, fh, click, adapter, mail, adapterCalls, files, web, applicant_payload, botsArg, max_workers, sinkGS, sinkSB, pc, bots,
                 task, adapterDid, retval, waiterInstalled, finished_futures,
                 yieldList, pending, collected, results, started_at, out,
                 artifacts, pushLog, exc, finishOrder>>

\* line 140 of the second invocation, up to the open of write_text
PeerOpen ==
  /\ peer.pc = "write"
  /\ \E now \in ClockReadings, writable \in BOOLEAN :
       /\ IF writable
          THEN /\ files' = OpenForWrite(files, TokenOf(now))
               /\ peer' = [peer EXCEPT !.pc = "writing", !.fh = [token |-> TokenOf(now)]]
          ELSE /\ files' = files
               /\ peer' = [peer EXCEPT
                             !.pc = IF WriteFailurePropagates \/ PushRaises(applicant_payload)
                                    THEN "raised" ELSE "push_complete",
                             !.pushing = IF WriteFailurePropagates THEN @
                                         ELSE RunCompletePush(applicant_payload, peer.out)]
  /\ UNCHANGED <<pushing, fh, click, adapter, mail, adapterCalls, web, applicant_payload, botsArg, max_workers, sinkGS, sinkSB, pc, bots,
                 task, adapterDid, retval, waiterInstalled, finished_futures,
                 yieldList, pending, collected, results, started_at, out,
                 artifacts, pushLog, exc, finishOrder>>

\* line 140 of the second invocation, the write and close, and line 141
PeerWrite ==
  /\ peer.pc = "writing"
  /\ \E w \in WriteOutcomes(files[peer.fh.token], peer.out) :
       /\ files' = [files EXCEPT ![peer.fh.token] = w.file]
       /\ IF w.ok
          THEN /\ artifacts' = Append(artifacts, [run |-> "peer", token |-> peer.fh.token,
                                                   record |-> peer.out])
               /\ peer' = [peer EXCEPT
                             !.pc = IF PushRaises(applicant_payload) THEN "raised"
                                    ELSE "push_complete",
                             !.fh = None,
                             !.pushing = RunCompletePush(applicant_payload, peer.out)]
          ELSE /\ artifacts' = artifacts
               /\ peer' = [peer EXCEPT
                             !.pc = IF WriteFailurePropagates \/ PushRaises(applicant_payload)
                                    THEN "raised" ELSE "push_complete",
                             !.fh = None,
                             !.pushing = IF WriteFailurePropagates THEN @
                                         ELSE RunCompletePush(applicant_payload, peer.out)]
  /\ UNCHANGED <<pushing, fh, click, adapter, mail, adapterCalls, web, applicant_payload, botsArg, max_workers, sinkGS, sinkSB, pc, bots,
                 task, adapterDid, retval, waiterInstalled, finished_futures,
                 yieldList, pending, collected, results, started_at, out,
                 pushLog, exc, finishOrder>>

\* lines 141-147 of the second invocation, one urlopen per step
PeerReturn ==
  /\ peer.pc = "push_complete"
  /\ IF peer.pushing = <<>>
     THEN /\ peer' = [peer EXCEPT !.pc = "returned"]
          /\ pushLog' = pushLog
     ELSE /\ pushLog' = Append(pushLog, Head(peer.pushing))
          /\ peer' = [peer EXCEPT !.pushing = Tail(@),
                                   !.pc = IF Tail(peer.pushing) = <<>> THEN "returned"
                                          ELSE "push_complete"]
  /\ UNCHANGED <<pushing, fh, click, adapter, mail, adapterCalls, files, web, applicant_payload, botsArg, max_workers, sinkGS, sinkSB, pc, bots,
                 task, adapterDid, retval, waiterInstalled, finished_futures,
                 yieldList, pending, collected, results, started_at, out,
                 artifacts, exc, finishOrder>>

\* two invocations, one bot each, no sink configured
TwoInit ==
  /\ applicant_payload = JsonPayload
  /\ botsArg \in {<<b>> : b \in BotIdPool}
  /\ max_workers \in 1..MaxWorkers
  /\ sinkGS = "unset" /\ sinkSB = "unset"
  /\ pc = "begin" /\ bots = <<>> /\ task = <<>> /\ adapterDid = <<>> /\ retval = <<>>
  /\ waiterInstalled = FALSE /\ finished_futures = <<>> /\ yieldList = <<>>
  /\ pending = {} /\ collected = <<>> /\ results = <<>>
  /\ started_at = 0 /\ out = None /\ artifacts = <<>> /\ pushLog = <<>>
  /\ exc = None /\ finishOrder = <<>> /\ adapterCalls = <<>>
  /\ files = EmptyDir
  /\ pushing = <<>>
  /\ fh = None
  /\ peer \in {[NoPeer EXCEPT !.pc = "begin", !.bot = b] : b \in BotIdPool}
  /\ web = NoWeb
  /\ mail = NoMail
  /\ adapter = NoAdapter
  /\ click = NoClick

TwoNext ==
  \/ Next
  \/ PeerBegin
  \/ PeerRunBotEnds
  \/ PeerCollect
  \/ PeerPush
  \/ PeerSeal
  \/ PeerOpen
  \/ PeerWrite
  \/ PeerReturn

TwoSpec == TwoInit /\ [][TwoNext]_vars

\* ---------------------------------------------------- WebhookHandler
WEBHOOK_PATH == "/typeform/submit"
Paths == {WEBHOOK_PATH, "/other"}

\* request bodies, by what json.loads makes of them and by what the mapping
\* reads of them. json: bytes that are not JSON ("invalid"), an object, or
\* any other JSON value ("array": [], 5, "x", null). form_response: the key
\* is absent, holds an object, or holds null (or any value without .get).
\* answers: absent, a list of answer objects ("list"), null, a list with an
\* item that is not an object ("bad_item"), with an item whose "field" is
\* null ("null_field"), or whose field id is a list ("unhashable_id").
\* hidden: absent, an object, or null
Body(j, fr, an, hi) == [json |-> j, form_response |-> fr, answers |-> an, hidden |-> hi]
Bodies ==
  {Body("invalid", "absent", "absent", "absent"),
   Body("array", "absent", "absent", "absent"),
   Body("object", "absent", "absent", "absent"),
   Body("object", "null", "absent", "absent"),
   Body("object", "object", "absent", "absent"),
   Body("object", "object", "list", "object"),
   Body("object", "object", "list", "null"),
   Body("object", "object", "null", "absent"),
   Body("object", "object", "bad_item", "absent"),
   Body("object", "object", "null_field", "absent"),
   Body("object", "object", "unhashable_id", "absent")}

\* lines 156-159: json.loads, or {"raw": ...} when it raises
ParseBody(body) ==
  IF body.json = "invalid"
  THEN Body("object", "absent", "absent", "absent")
  ELSE body

\* _map_typeform_to_applicant, lines 176-191. tf_payload.get("form_response",
\* {}).get("answers", []) needs tf_payload and its form_response to have
\* .get (AttributeError on a list or on None); the loop needs answers to be
\* iterable (TypeError on None), every item and its "field" to have .get
\* (AttributeError) and the field id to be hashable (TypeError, line 181);
\* line 182 then calls .get on "hidden" (AttributeError on None)
MapTypeform(tf) ==
  IF tf.json # "object" THEN [kind |-> "raise", msg |-> "AttributeError"]
  ELSE IF tf.form_response = "absent" THEN [kind |-> "ok", applicant |-> "blank"]
  ELSE IF tf.form_response # "object" THEN [kind |-> "raise", msg |-> "AttributeError"]
  ELSE IF tf.answers \in {"null", "unhashable_id"} THEN [kind |-> "raise", msg |-> "TypeError"]
  ELSE IF tf.answers \in {"bad_item", "null_field"}
       THEN [kind |-> "raise", msg |-> "AttributeError"]
  ELSE IF tf.hidden = "null" THEN [kind |-> "raise", msg |-> "AttributeError"]
  ELSE IF tf.answers = "list" THEN [kind |-> "ok", applicant |-> "mapped"]
  ELSE [kind |-> "ok", applicant |-> "blank"]

\* the lines of audit.log: an entry (its ts is left out), the start of a
\* line, or the start of a line that a later entry was written after
AuditEntry(event, data) == [kind |-> "entry", event |-> event, data |-> data]
Partial(line) == IF line.kind = "partial" THEN line ELSE [kind |-> "partial", of |-> line]

\* read_text() + json.dumps(entry) + "\n": the entry is a line of its own
\* unless the text read does not end in a newline
Joined(log, entry) ==
  IF log # <<>> /\ log[Len(log)].kind = "partial"
  THEN [log EXCEPT ![Len(log)] = [kind |-> "merged", head |-> log[Len(log)], tail |-> entry]]
  ELSE Append(log, entry)

\* how a call of _audit goes: all of it ("ok"); exists, read_text or the open
\* of write_text raises ("unchanged"); the write raises after the open has
\* truncated the file, with `kept` whole lines of the new text in the file
\* and, when `partial`, the start of the next one ("cut")
AuditHows(log) ==
  LET lines == IF log # <<>> /\ log[Len(log)].kind = "partial" THEN Len(log) ELSE Len(log) + 1
  IN {[how |-> "ok"], [how |-> "unchanged"]}
       \cup {[how |-> "cut", kept |-> n, partial |-> b] : n \in 0..(lines - 1), b \in BOOLEAN}

\* _audit, lines 60-72: the file is rewritten by write_text as what
\* read_text gave plus one line for the entry. An exception is caught and
\* logged (line 71), with the file as the failed call left it
Audit(log, event, data, how) ==
  LET new == Joined(log, AuditEntry(event, data))
  IN CASE how.how = "ok" -> new
       [] how.how = "unchanged" -> log
       [] how.how = "cut" ->
            SubSeq(new, 1, how.kept)
              \o (IF how.partial THEN <<Partial(new[how.kept + 1])>> ELSE <<>>)

\* a request as the handler got it, with what became of it: the status
\* written (0: none, an exception left do_POST and the connection was
\* closed), the reply or the exception, the thread started for it (0: none)
\* and whether _audit wrote its line
Handled(path, body, length_ok, status, reply, thread, logged) ==
  [path |-> path, body |-> body, length_ok |-> length_ok, status |-> status,
   reply |-> reply, thread |-> thread, logged |-> logged]

\* do_POST, lines 151-159, for one request: off the path, the 404 answer
\* (line 153). On it, line 154 reads Content-Length with int(): a header that
\* is not a number raises ValueError, which leaves the handler before _audit,
\* with nothing written; otherwise the body is read and parsed (lines
\* 155-159). HTTPServer handles one request at a time, and serves once the
\* _send_email of line 197 has returned
DoPOST(path, body, length_ok) ==
  /\ pc = "idle"
  /\ mail.calls # <<>>
  /\ web.handling = None
  /\ Len(web.responses) < MaxRequests
  /\ web' =
       IF path # WEBHOOK_PATH
       THEN [web EXCEPT !.responses =
               Append(@, Handled(path, body, length_ok, 404, "Not found", 0, FALSE))]
       ELSE IF ~length_ok
       THEN [web EXCEPT !.responses =
               Append(@, Handled(path, body, length_ok, 0, "ValueError", 0, FALSE))]
       ELSE [web EXCEPT !.handling =
               [pc |-> "audit", path |-> path, body |-> body, length_ok |-> length_ok,
                thread |-> 0, logged |-> FALSE]]
  /\ UNCHANGED <<pushing, fh, click, adapter, mail, adapterCalls, files, peer, applicant_payload, botsArg, max_workers, sinkGS, sinkSB, pc, bots,
                 task, adapterDid, retval, waiterInstalled, finished_futures,
                 yieldList, pending, collected, results, started_at, out,
                 artifacts, pushLog, exc, finishOrder>>

\* do_POST, line 160: _audit, which swallows its own failures; the threads
\* started for earlier requests run meanwhile
DoAudit ==
  /\ pc = "idle"
  /\ web.handling # None
  /\ web.handling.pc = "audit"
  /\ \E how \in AuditHows(web.audit) :
       web' = [web EXCEPT
         !.audit = Audit(@, "typeform_webhook_received", ParseBody(web.handling.body), how),
         !.handling.logged = (how.how = "ok"),
         !.handling.pc = "map"]
  /\ UNCHANGED <<pushing, fh, click, adapter, mail, adapterCalls, files, peer, applicant_payload, botsArg, max_workers, sinkGS, sinkSB, pc, bots,
                 task, adapterDid, retval, waiterInstalled, finished_futures,
                 yieldList, pending, collected, results, started_at, out,
                 artifacts, pushLog, exc, finishOrder>>

\* do_POST, lines 163-165: the mapping and the start of the thread that
\* calls run_parallel_bots(applicant). An exception of line 163 leaves the
\* handler: the connection is closed with no response written and no thread
\* started
MapAndStart ==
  /\ pc = "idle"
  /\ web.handling # None
  /\ web.handling.pc = "map"
  /\ LET h == web.handling
         mapped == MapTypeform(ParseBody(h.body))
     IN web' =
          IF mapped.kind = "ok"
          THEN [web EXCEPT
                  !.threads = Append(@, [applicant |-> mapped.applicant,
                                         state |-> "running", token |-> 0]),
                  !.handling.thread = Len(web.threads) + 1,
                  !.handling.pc = "reply"]
          ELSE [web EXCEPT
                  !.handling = None,
                  !.responses = Append(@, Handled(h.path, h.body, h.length_ok, 0,
                                                   mapped.msg, 0, h.logged))]
  /\ UNCHANGED <<pushing, fh, click, adapter, mail, adapterCalls, files, peer, applicant_payload, botsArg, max_workers, sinkGS, sinkSB, pc, bots,
                 task, adapterDid, retval, waiterInstalled, finished_futures,
                 yieldList, pending, collected, results, started_at, out,
                 artifacts, pushLog, exc, finishOrder>>

\* do_POST, lines 167-170: the response is written after the thread has been
\* started, whatever the thread has done by then
Reply ==
  /\ pc = "idle"
  /\ web.handling # None
  /\ web.handling.pc = "reply"
  /\ LET h == web.handling
     IN web' = [web EXCEPT
          !.handling = None,
          !.responses = Append(@, Handled(h.path, h.body, h.length_ok, 200,
                                           "accepted", h.thread, h.logged))]
  /\ UNCHANGED <<pushing, fh, click, adapter, mail, adapterCalls, files, peer, applicant_payload, botsArg, max_workers, sinkGS, sinkSB, pc, bots,
                 task, adapterDid, retval, waiterInstalled, finished_futures,
                 yieldList, pending, collected, results, started_at, out,
                 artifacts, pushLog, exc, finishOrder>>

\* what the run of thread i writes at line 140: the record it sealed. The
\* dispatch and the collection of a run are followed in Spec and
\* DefaultSpec; here a record is told from another by the run it is of
ThreadRecord(i) == [run |-> i, applicant |-> web.threads[i].applicant]

\* the run_parallel_bots call of a started thread gets to line 140 and
\* opens its artifact file, named after the clock; no sink is set in the
\* server followed here, so the run pushes nothing. An exception of the open
\* ends the thread
ThreadRunOpens(i) ==
  /\ pc = "idle"
  /\ web.threads[i].state = "running"
  /\ \E now \in ClockReadings, writable \in BOOLEAN :
       IF writable
       THEN /\ files' = OpenForWrite(files, TokenOf(now))
            /\ web' = [web EXCEPT !.threads[i].state = "writing",
                                  !.threads[i].token = TokenOf(now)]
       ELSE /\ files' = files
            /\ web' = [web EXCEPT !.threads[i].state =
                          IF WriteFailurePropagates THEN "raised" ELSE "ended"]
  /\ artifacts' = artifacts
  /\ UNCHANGED <<pushing, fh, click, adapter, mail, adapterCalls, peer, applicant_payload, botsArg, max_workers, sinkGS, sinkSB, pc, bots,
                 task, adapterDid, retval, waiterInstalled, finished_futures,
                 yieldList, pending, collected, results, started_at, out,
                 pushLog, exc, finishOrder>>

\* the run_parallel_bots call of a started thread comes to its end: the
\* write and close of line 140, then the return of line 147, or the
\* exception of the write
ThreadRunEnds(i) ==
  /\ pc = "idle"
  /\ web.threads[i].state = "writing"
  /\ LET t == web.threads[i].token
     IN \E w \in WriteOutcomes(files[t], ThreadRecord(i)) :
          /\ files' = [files EXCEPT ![t] = w.file]
          /\ artifacts' = IF w.ok
                          THEN Append(artifacts, [run |-> "thread", thread |-> i,
                                                  token |-> t, record |-> ThreadRecord(i)])
                          ELSE artifacts
          /\ web' = [web EXCEPT !.threads[i].state =
                        IF w.ok \/ ~WriteFailurePropagates THEN "ended" ELSE "raised"]
  /\ UNCHANGED <<pushing, fh, click, adapter, mail, adapterCalls, peer, applicant_payload, botsArg, max_workers, sinkGS, sinkSB, pc, bots,
                 task, adapterDid, retval, waiterInstalled, finished_futures,
                 yieldList, pending, collected, results, started_at, out,
                 pushLog, exc, finishOrder>>

\* ----------------------------------------------------------- _send_email
\* variant: the connection is opened whatever the settings are
SendEmail_NoGuard(conf, smtp_ok) ==
  [connected |-> TRUE, sent |-> smtp_ok, raised |-> FALSE]

\* _send_email, lines 42-57: returns at once unless SMTP_USER, SMTP_PASS and
\* ALERT_TO are all set; otherwise opens the SMTP connection, and a fault of
\* it (smtp_ok false) is caught and logged
SendEmail(conf, smtp_ok) ==
  IF ~(conf.user /\ conf.pass /\ conf.to)
  THEN [connected |-> FALSE, sent |-> FALSE, raised |-> FALSE]
  ELSE [connected |-> TRUE, sent |-> smtp_ok, raised |-> FALSE]

\* line 197: run_webhook_server announces itself after the HTTPServer is
\* created and before serve_forever, that is before any request is served
\* and before any run is started
Announce ==
  /\ pc \in {"begin", "idle"}
  /\ mail.calls = <<>>
  /\ \E smtp_ok \in BOOLEAN :
       mail' = [mail EXCEPT !.calls = Append(@, SendEmail(mail, smtp_ok))]
  /\ UNCHANGED <<pushing, fh, click, adapter, adapterCalls, files, peer, web, applicant_payload, botsArg, max_workers, sinkGS, sinkSB, pc,
                 bots, task, adapterDid, retval, waiterInstalled, finished_futures,
                 yieldList, pending, collected, results, started_at, out,
                 artifacts, pushLog, exc, finishOrder>>

\* the server alone, created (lines 194-196) and about to announce itself,
\* with no SMTP setting: no invocation other than those its threads make
WebInit ==
  /\ applicant_payload = JsonPayload
  /\ botsArg = <<>> /\ max_workers = 1
  /\ sinkGS = "unset" /\ sinkSB = "unset"
  /\ pc = "idle" /\ bots = <<>> /\ task = <<>> /\ adapterDid = <<>> /\ retval = <<>>
  /\ waiterInstalled = FALSE /\ finished_futures = <<>> /\ yieldList = <<>>
  /\ pending = {} /\ collected = <<>> /\ results = <<>>
  /\ started_at = 0 /\ out = None /\ artifacts = <<>> /\ pushLog = <<>>
  /\ exc = None /\ finishOrder = <<>> /\ adapterCalls = <<>>
  /\ files = EmptyDir
  /\ pushing = <<>>
  /\ fh = None
  /\ peer = NoPeer
  /\ web = NoWeb
  /\ mail = NoMail
  /\ adapter = NoAdapter
  /\ click = NoClick

\* a request off the path is answered before its headers and body are read
WebNext ==
  \/ Announce
  \/ \E path \in Paths :
       \E body \in (IF path = WEBHOOK_PATH THEN Bodies
                     ELSE {Body("object", "absent", "absent", "absent")}),
          length_ok \in (IF path = WEBHOOK_PATH THEN BOOLEAN ELSE {TRUE}) :
         DoPOST(path, body, length_ok)
  \/ DoAudit
  \/ MapAndStart
  \/ Reply
  \/ \E i \in 1..Len(web.threads) : ThreadRunOpens(i)
  \/ \E i \in 1..Len(web.threads) : ThreadRunEnds(i)

WebSpec == WebInit /\ [][WebNext]_vars

\* one run of one bot in a process with any combination of the optional
\* integrations present or absent
OptionalInit ==
  /\ applicant_payload = JsonPayload
  /\ botsArg \in {<<b>> : b \in BotIdPool}
  /\ max_workers = 1
  /\ sinkGS \in SinkStates /\ sinkSB \in SinkStates
  /\ pc = "begin" /\ bots = <<>> /\ task = <<>> /\ adapterDid = <<>> /\ retval = <<>>
  /\ waiterInstalled = FALSE /\ finished_futures = <<>> /\ yieldList = <<>>
  /\ pending = {} /\ collected = <<>> /\ results = <<>>
  /\ started_at = 0 /\ out = None /\ artifacts = <<>> /\ pushLog = <<>>
  /\ exc = None /\ finishOrder = <<>> /\ adapterCalls = <<>>
  /\ files = EmptyDir
  /\ pushing = <<>>
  /\ fh = None
  /\ peer = NoPeer
  /\ web = NoWeb
  /\ mail \in {[NoMail EXCEPT !.user = u, !.pass = p, !.to = t] :
                  u \in BOOLEAN, p \in BOOLEAN, t \in BOOLEAN}
  /\ adapter = NoAdapter
  /\ click = NoClick

OptionalNext ==
  \/ Next
  \/ Announce

OptionalSpec == OptionalInit /\ [][OptionalNext]_vars

\* ------------------------------------------------------ a default run
\* run_parallel_bots(payload, None, 1): `bots` omitted, so line 121 puts the
\* default list in its place. Which identifiers are dispatched does not depend
\* on the pool, so the five work items go through one worker; no sink is set
DefaultInit ==
  /\ applicant_payload = JsonPayload
  /\ botsArg = <<>>
  /\ max_workers = 1
  /\ sinkGS = "unset" /\ sinkSB = "unset"
  /\ pc = "begin" /\ bots = <<>> /\ task = <<>> /\ adapterDid = <<>> /\ retval = <<>>
  /\ waiterInstalled = FALSE /\ finished_futures = <<>> /\ yieldList = <<>>
  /\ pending = {} /\ collected = <<>> /\ results = <<>>
  /\ started_at = 0 /\ out = None /\ artifacts = <<>> /\ pushLog = <<>>
  /\ exc = None /\ finishOrder = <<>> /\ adapterCalls = <<>>
  /\ files = EmptyDir
  /\ pushing = <<>>
  /\ fh = None
  /\ peer = NoPeer
  /\ web = NoWeb
  /\ mail = NoMail
  /\ adapter = NoAdapter
  /\ click = NoClick

DefaultSpec == DefaultInit /\ [][Next]_vars

\* ------------------------------------------------ university_bots: run
\* The adapters that own a browser session: WitsBot.run (wits_bot.py),
\* run_sample (uct_bot.py), UniversityBotTemplate.process_application
\* (bot_template.py), StellenboschBot.run (stellenbosch_bot.py) and main
\* of gmail_bot.py, which drives a GmailBot.
SessionAdapters == {"wits", "stellenbosch", "uct", "template", "gmail"}

\* stellenbosch_bot.py does not compile: line 200 has a stray `"))` inside
\* the call of wait.until, so importing the module raises SyntaxError and
\* no StellenboschBot exists to be run
Loadable(kind) == kind # "stellenbosch"

\* the calls made inside the try block, in program order
Steps(kind) ==
  CASE kind = "wits" ->
         <<"navigate", "create_profile", "fill_personal_information",
           "fill_academic_background", "select_programs", "upload_documents",
           "pay_fee", "submit", "capture_confirmation", "write_artifact">>
    [] kind = "uct" ->
         <<"go_to_portal", "login_if_required", "start_application",
           "fill_applicant_details", "select_program", "upload_documents",
           "submit_application">>
    [] kind = "template" ->
         <<"report_running", "update_processing", "setup_driver",
           "navigate_to_portal", "fill_personal_information",
           "fill_contact_information", "fill_academic_information",
           "submit_application", "update_completed", "report_completed">>
    [] kind = "gmail" -> <<"generate_credentials", "create_account">>
    [] OTHER -> <<>>

\* what a call can do: complete ("done"; pay_fee with its status, a step
\* that records a fault it caught with the entry for `errors`), be left out
\* ("skip"), return False ("false") or raise ("raise")
StepDone == [how |-> "done", pay |-> "none", err |-> <<>>]

\* upload_documents, wits_bot.py lines 125-131: one entry for each document
\* whose upload failed, in the order of applicant.documents (two documents)
UploadFailures ==
  {<<>>, <<"Upload failed: doc">>, <<"Upload failed: doc2">>,
   <<"Upload failed: doc", "Upload failed: doc2">>}

\* a call raises after it has recorded `err` (upload_documents records the
\* failed uploads and then calls retry_click, line 133)
StepRaises(errs) == {[how |-> "raise", msg |-> m, err |-> e] : m \in Messages, e \in errs}

StepOutcomes(kind, name) ==
  CASE kind = "wits" /\ name = "pay_fee" ->
         {[how |-> "done", pay |-> st, err |-> <<>>] : st \in {"PAID", "FAILED", "PENDING"}}
           \cup {[how |-> "done", pay |-> "FAILED", err |-> <<m>>] : m \in Messages}
    [] kind = "wits" /\ name = "capture_confirmation" -> {StepDone}
    [] kind = "wits" /\ name = "upload_documents" ->
         {[how |-> "done", pay |-> "none", err |-> e] : e \in UploadFailures}
           \cup StepRaises(UploadFailures)
    [] kind = "wits" -> {StepDone} \cup StepRaises({<<>>})
    [] kind = "uct" /\ name = "go_to_portal" -> {StepDone} \cup StepRaises({<<>>})
    [] kind = "uct" /\ name \in {"select_program", "upload_documents"} ->
         {StepDone, [how |-> "skip"]}
    [] kind = "uct" /\ name = "submit_application" -> {StepDone, [how |-> "false"]}
    [] kind = "uct" -> {StepDone}
    [] kind = "template" /\ name \in {"report_running", "update_processing",
                                       "update_completed", "report_completed"} -> {StepDone}
    [] kind = "template" -> {StepDone, [how |-> "false"]}
    [] kind = "gmail" -> {StepDone}
    [] OTHER -> {}

\* the adapters whose try has `except Exception` (WitsBot.run line 213,
\* process_application line 208, main of gmail_bot.py line 315); run_sample
\* has try/finally only
CatchesAll(kind) == kind \in {"wits", "template", "gmail"}

\* variant: the failed result keeps what pay_fee returned
BotResultFailed_KeepsPayment(a) ==
  [university |-> "Wits", payment_status |-> a.payment,
   success |-> (a.payment = "PAID"), errors |-> a.errors]

\* the BotResult of WitsBot.run
BotResultOk(a) ==
  [university |-> "Wits", payment_status |-> a.payment,
   success |-> (a.payment = "PAID"), errors |-> a.errors]
BotResultFailed(a) ==
  [university |-> "Wits", payment_status |-> "FAILED",
   success |-> FALSE, errors |-> a.errors]

\* variant: the session is closed at the end of the try block only
Cleanup_OnSuccessOnly(a, quit_ok) ==
  IF a.caught # None \/ a.exc # None
  THEN [a EXCEPT !.pc = IF a.exc # None THEN "raised" ELSE "returned"]
  ELSE [a EXCEPT !.driver = IF a.driver = "open" THEN "quit" ELSE @,
                 !.quits = IF a.driver = "open" THEN @ + 1 ELSE @,
                 !.pc = "returned"]

\* the finally block: WitsBot.run calls driver.quit() and swallows its
\* fault (lines 227-231); bot.close() (uct_bot.py 196-199) and
\* process_application (bot_template.py 218-222) call it if a driver is
\* set, and a fault of quit leaves the function
Cleanup(a, quit_ok) ==
  IF a.driver = "open"
  THEN [a EXCEPT !.driver = "quit",
                 !.quits = @ + 1,
                 !.exc = IF quit_ok \/ a.kind = "wits" THEN @
                         ELSE [kind |-> "raise", msg |-> "quit"],
                 !.pc = IF (quit_ok \/ a.kind = "wits") /\ a.exc = None
                        THEN "returned" ELSE "raised"]
  ELSE [a EXCEPT !.pc = IF a.exc = None THEN "returned" ELSE "raised"]

\* the adapter's module is loaded on its own, by a process that runs no
\* orchestrator: it compiles and its imports succeed, or the load raises
AdapterImport ==
  /\ adapter.pc = "import"
  /\ pc = "idle"
  /\ adapter' = IF Loadable(adapter.kind)
                THEN [adapter EXCEPT !.pc = "new"]
                ELSE [adapter EXCEPT !.pc = "import_error",
                                     !.exc = [kind |-> "raise", msg |-> "SyntaxError"]]
  /\ UNCHANGED <<pushing, fh, click, mail, adapterCalls, files, peer, web, applicant_payload, botsArg, max_workers, sinkGS,
                 sinkSB, pc, bots, task, adapterDid, retval, waiterInstalled,
                 finished_futures, yieldList, pending, collected, results,
                 started_at, out, artifacts, pushLog, exc, finishOrder>>

\* the adapter is called by _run_bot, for an identifier of this run's list
\* (lines 101-104): the applicant is built from the payload first (line 102)
\* and no driver is passed (line 103). Otherwise it is called on its own, in
\* a process that runs no orchestrator
ViaRunBot(kind) ==
  /\ pc # "idle"
  /\ \E i \in 1..Len(OrDefault(botsArg)) : OrDefault(botsArg)[i] = kind

\* the call is under way: under _run_bot only while a worker is executing the
\* work item of this identifier
CalledNow(kind) ==
  ViaRunBot(kind) => \E k \in 1..Len(task) : task[k] = "running" /\ BotOf(k) = kind

\* GmailBot.setup_driver (gmail_bot.py 52-82) sets self.driver to a new
\* webdriver.Chrome (line 73) and then calls maximize_window (line 74): a
\* fault of either is caught and makes it return False, and main then
\* returns (lines 293-295) without calling close
GmailSetupDriver(a, chrome_ok, window_ok) ==
  IF ~chrome_ok THEN [a EXCEPT !.pc = "returned"]
  ELSE [a EXCEPT !.driver = "open", !.own = TRUE,
                 !.pc = IF window_ok THEN "try" ELSE "returned"]

\* what precedes the try block. _run_bot builds WitsApplicant(**payload),
\* which raises TypeError when the payload's keys are not the dataclass's
\* fields. WitsBot(applicant, driver): the driver is the one passed in or a
\* new webdriver.Chrome(), whose fault leaves the constructor. run_sample:
\* setup_driver, which returns False on a fault. main of gmail_bot.py:
\* setup_driver. process_application sets its driver up inside the try block
AdapterNew ==
  /\ adapter.pc = "new"
  /\ adapter.kind \in SessionAdapters
  /\ CalledNow(adapter.kind)
  /\ \E app_ok \in (IF ViaRunBot(adapter.kind) THEN BOOLEAN ELSE {TRUE}),
        given \in (IF ViaRunBot(adapter.kind) THEN {FALSE} ELSE BOOLEAN),
        chrome_ok \in BOOLEAN, window_ok \in BOOLEAN :
       adapter' =
         CASE adapter.kind = "wits" /\ ~app_ok ->
                [adapter EXCEPT !.pc = "raised",
                                !.exc = [kind |-> "raise", msg |-> "TypeError"]]
           [] adapter.kind = "gmail" -> GmailSetupDriver(adapter, chrome_ok, window_ok)
           [] adapter.kind = "wits" /\ given ->
                [adapter EXCEPT !.pc = "try", !.driver = "open"]
           [] adapter.kind = "wits" /\ ~given /\ chrome_ok ->
                [adapter EXCEPT !.pc = "try", !.driver = "open", !.own = TRUE]
           [] adapter.kind = "wits" /\ ~given /\ ~chrome_ok ->
                [adapter EXCEPT !.pc = "raised", !.exc = [kind |-> "raise", msg |-> "chrome"]]
           [] adapter.kind = "uct" /\ chrome_ok ->
                [adapter EXCEPT !.pc = "try", !.driver = "open", !.own = TRUE]
           [] adapter.kind = "uct" /\ ~chrome_ok ->
                [adapter EXCEPT !.pc = "returned",
                                !.result = [success |-> FALSE,
                                            message |-> "WebDriver setup failed"]]
           [] OTHER -> [adapter EXCEPT !.pc = "try"]
  /\ UNCHANGED <<pushing, fh, click, mail, adapterCalls, files, peer, web, applicant_payload, botsArg, max_workers, sinkGS,
                 sinkSB, pc, bots, task, adapterDid, retval, waiterInstalled,
                 finished_futures, yieldList, pending, collected, results,
                 started_at, out, artifacts, pushLog, exc, finishOrder>>

\* the value returned at the end of the try block
TryResult(a) ==
  CASE a.kind = "wits" -> BotResultOk(a)
    [] a.kind = "uct" -> [success |-> TRUE, message |-> "Submitted successfully"]
    [] a.kind = "gmail" -> None
    [] OTHER -> [success |-> TRUE]

\* the adapter after the call at position a.at of its try block did `o`
AfterStep(a, o) ==
  LET name == Steps(a.kind)[a.at]
      last == a.at = Len(Steps(a.kind))
      fault == IF o.how = "raise" THEN [kind |-> "raise", msg |-> o.msg]
               ELSE [kind |-> "raise", msg |-> "Failed: " \o name]
      b == [a EXCEPT !.at = @ + 1]
  IN CASE o.how = "done" ->
            LET c == [b EXCEPT !.done = Append(@, name),
                               !.payment = IF o.pay # "none" THEN o.pay ELSE @,
                               !.errors = @ \o o.err,
                               !.driver = IF name = "setup_driver" THEN "open" ELSE @,
                               !.own = IF name = "setup_driver" THEN TRUE ELSE @]
            IN IF last THEN [c EXCEPT !.pc = "finally", !.result = TryResult(c)] ELSE c
       [] o.how = "skip" -> b
       [] o.how = "false" /\ a.kind = "uct" ->
            [b EXCEPT !.pc = "finally",
                      !.result = [success |-> FALSE, message |-> "Submission not confirmed"]]
       [] OTHER ->
            LET c == [a EXCEPT !.errors = IF o.how = "raise" THEN @ \o o.err ELSE @]
            IN IF CatchesAll(a.kind)
               THEN [c EXCEPT !.pc = "except", !.caught = fault]
               ELSE [c EXCEPT !.pc = "finally", !.exc = fault]

\* one call of the try block
AdapterStep ==
  /\ adapter.pc = "try"
  /\ adapter.kind \in SessionAdapters
  /\ \E o \in StepOutcomes(adapter.kind, Steps(adapter.kind)[adapter.at]) :
       adapter' = AfterStep(adapter, o)
  /\ UNCHANGED <<pushing, fh, click, mail, adapterCalls, files, peer, web, applicant_payload, botsArg, max_workers, sinkGS,
                 sinkSB, pc, bots, task, adapterDid, retval, waiterInstalled,
                 finished_futures, yieldList, pending, collected, results,
                 started_at, out, artifacts, pushLog, exc, finishOrder>>

\* the except block: WitsBot.run lines 213-226 (the fault's message goes to
\* errors and a failed BotResult is returned), process_application lines
\* 208-216 (returns False), main of gmail_bot.py lines 315-316 (logs)
AdapterExcept ==
  /\ adapter.pc = "except"
  /\ adapter.kind \in SessionAdapters
  /\ adapter' =
       IF adapter.kind = "wits"
       THEN LET b == [adapter EXCEPT !.errors = Append(@, adapter.caught.msg)]
            IN [b EXCEPT !.pc = "finally", !.result = BotResultFailed(b)]
       ELSE IF adapter.kind = "gmail"
            THEN [adapter EXCEPT !.pc = "finally"]
            ELSE [adapter EXCEPT !.pc = "finally", !.result = [success |-> FALSE]]
  /\ UNCHANGED <<pushing, fh, click, mail, adapterCalls, files, peer, web, applicant_payload, botsArg, max_workers, sinkGS,
                 sinkSB, pc, bots, task, adapterDid, retval, waiterInstalled,
                 finished_futures, yieldList, pending, collected, results,
                 started_at, out, artifacts, pushLog, exc, finishOrder>>

\* the finally block
AdapterFinally ==
  /\ adapter.pc = "finally"
  /\ \E quit_ok \in BOOLEAN : adapter' = Cleanup(adapter, quit_ok)
  /\ UNCHANGED <<pushing, fh, click, mail, adapterCalls, files, peer, web, applicant_payload, botsArg, max_workers, sinkGS,
                 sinkSB, pc, bots, task, adapterDid, retval, waiterInstalled,
                 finished_futures, yieldList, pending, collected, results,
                 started_at, out, artifacts, pushLog, exc, finishOrder>>

\* one call of one adapter; no run of the orchestrator
AdapterInit ==
  /\ applicant_payload = JsonPayload
  /\ botsArg = <<>> /\ max_workers = 1
  /\ sinkGS = "unset" /\ sinkSB = "unset"
  /\ pc = "idle" /\ bots = <<>> /\ task = <<>> /\ adapterDid = <<>> /\ retval = <<>>
  /\ waiterInstalled = FALSE /\ finished_futures = <<>> /\ yieldList = <<>>
  /\ pending = {} /\ collected = <<>> /\ results = <<>>
  /\ started_at = 0 /\ out = None /\ artifacts = <<>> /\ pushLog = <<>>
  /\ exc = None /\ finishOrder = <<>> /\ adapterCalls = <<>>
  /\ files = EmptyDir
  /\ pushing = <<>>
  /\ fh = None
  /\ peer = NoPeer
  /\ web = NoWeb
  /\ mail = NoMail
  /\ adapter \in {[NoAdapter EXCEPT !.kind = k, !.pc = "import"] : k \in SessionAdapters}
  /\ click = NoClick

AdapterNext ==
  \/ AdapterImport
  \/ AdapterNew
  \/ AdapterStep
  \/ AdapterExcept
  \/ AdapterFinally

AdapterSpec == AdapterInit /\ [][AdapterNext]_vars

\* ------------------------------------- university_bots: UJBot, NSFASBot
\* uj_bot.py and nsfas_bot.py: run(driver, context) makes a new bot and calls
\* its run, which emits events into the bot's list. An event is kept without
\* its "ts" field.
EventAdapters == {"uj", "nsfas"}

\* the calls inside the try block of run, in program order (uj_bot.py lines
\* 188-194, nsfas_bot.py lines 128-133)
EventSteps(kind) ==
  CASE kind = "uj" ->
         <<"login_or_create", "step_personal_details", "step_academic_program",
           "step_address_and_background", "step_documents", "step_fee_payment",
           "step_review_submit">>
    [] kind = "nsfas" ->
         <<"login_or_register", "step_profile", "step_household",
           "step_institution", "step_documents", "step_otp_and_declaration">>
    [] OTHER -> <<>>

StepEvent(name) == [type |-> "step", name |-> name]
WarningEvent(phase) == [type |-> "warning", phase |-> phase]
ErrorEvent(phase, msg) == [type |-> "error", phase |-> phase, error |-> msg]
ResultEvent == [type |-> "result", status |-> "submitted"]
StartEvent(kind) == [type |-> "start", bot |-> kind \o "_bot"]
DoneEvent(ok, msg) ==
  IF ok THEN [type |-> "done", ok |-> TRUE]
  ELSE [type |-> "done", ok |-> FALSE, error |-> msg]

\* step_documents (uj_bot.py lines 129-150, nsfas_bot.py lines 102-115) calls
\* set_file for four uploads in this order; a call whose upload is missing
\* from context["uploads"] emits a warning naming it and returns, the others
\* find the input and send the path
UploadKeys(kind) ==
  IF kind = "uj" THEN <<"id_doc", "results", "residence_proof", "affidavit">>
  ELSE <<"id_doc", "proof_income", "consent_form", "academic_record">>
UploadWarning(key) == [type |-> "warning", phase |-> "upload", missing |-> key]

\* the warnings of one call of step_documents: one per missing upload, in the
\* order of the set_file calls; none to four of them. A fault (of _find or
\* send_keys for an upload that is there, or of the click after the four
\* calls) comes after the warnings of the uploads missing before it
UploadWarnings(kind) ==
  LET keys == UploadKeys(kind)
      missing(S) == SelectSeq(keys, LAMBDA k : k \in S)
  IN {[i \in 1..Len(missing(S)) |-> UploadWarning(missing(S)[i])] :
        S \in SUBSET {keys[i] : i \in 1..Len(keys)}}

Completes(evs) == [how |-> "done", events |-> evs]
Raises(evs, msg) == [how |-> "raise", events |-> evs, msg |-> msg]

\* a step of UJBot after its first emit (lines 92-183): the body is in a
\* try whose handler emits an "error" event with the phase and re-raises
UjStep(name, phase, inside, atEnd) ==
  {Completes(<<StepEvent(name)>> \o w \o atEnd) : w \in inside}
    \cup {Raises(<<StepEvent(name)>> \o w \o <<ErrorEvent(phase, m)>>, m) :
            w \in inside, m \in Messages}

\* a step of NSFASBot (lines 79-123): no handler, a fault leaves the step
NsfasStep(name, inside) ==
  {Completes(<<StepEvent(name)>> \o w) : w \in inside}
    \cup {Raises(<<StepEvent(name)>> \o w, m) : w \in inside, m \in Messages}

\* what a call of the try block can do, with the events it emits
EventStepOutcomes(kind, name) ==
  CASE kind = "uj" /\ name = "login_or_create" ->
         \* lines 68-90: driver.get is outside any try; a fault of the
         \* login or create-profile form is emitted as a warning
         {Raises(<<StepEvent("navigate_login")>>, m) : m \in Messages}
           \cup {Completes(<<StepEvent("navigate_login"), StepEvent(b)>>) :
                   b \in {"login_existing", "create_profile"}}
           \cup {Completes(<<StepEvent("navigate_login"), StepEvent("login_existing"),
                             WarningEvent("login")>>),
                 Completes(<<StepEvent("navigate_login"), StepEvent("create_profile"),
                             WarningEvent("create_profile")>>)}
    [] kind = "uj" /\ name = "step_personal_details" ->
         UjStep("personal_details", "personal_details", {<<>>}, <<>>)
    [] kind = "uj" /\ name = "step_academic_program" ->
         UjStep("academic_program", "academic_program", {<<>>}, <<>>)
    [] kind = "uj" /\ name = "step_address_and_background" ->
         UjStep("address_background", "address", {<<>>}, <<>>)
    [] kind = "uj" /\ name = "step_documents" ->
         UjStep("upload_documents", "documents", UploadWarnings("uj"), <<>>)
    [] kind = "uj" /\ name = "step_fee_payment" ->
         UjStep("fee_payment", "fee_payment", {<<>>}, <<>>)
    [] kind = "uj" /\ name = "step_review_submit" ->
         UjStep("review_submit", "submit", {<<>>}, <<ResultEvent>>)
    [] kind = "nsfas" /\ name = "login_or_register" ->
         {Raises(<<StepEvent("navigate_login")>>, m) : m \in Messages}
           \cup NsfasStep("navigate_login", {<<StepEvent("login_existing")>>,
                                             <<StepEvent("register")>>})
    [] kind = "nsfas" /\ name = "step_profile" -> NsfasStep("profile", {<<>>})
    [] kind = "nsfas" /\ name = "step_household" -> NsfasStep("household", {<<>>})
    [] kind = "nsfas" /\ name = "step_institution" -> NsfasStep("institution", {<<>>})
    [] kind = "nsfas" /\ name = "step_documents" ->
         NsfasStep("documents", UploadWarnings("nsfas"))
    [] kind = "nsfas" /\ name = "step_otp_and_declaration" ->
         NsfasStep("otp_declaration", {<<>>})
    [] OTHER -> {}

\* variant: a step that raised is passed over and the next one is called
AfterEventStep_GoesOn(a, o) ==
  IF o.how = "done"
  THEN [a EXCEPT !.events = @ \o o.events, !.at = @ + 1,
                 !.done = Append(@, EventSteps(a.kind)[a.at])]
  ELSE [a EXCEPT !.events = @ \o o.events, !.at = @ + 1]

\* the bot after the call at position a.at of the try block did `o`: the
\* next call follows, or the handler of run is entered
AfterEventStep(a, o) ==
  IF o.how = "done"
  THEN [a EXCEPT !.events = @ \o o.events, !.at = @ + 1,
                 !.done = Append(@, EventSteps(a.kind)[a.at])]
  ELSE [a EXCEPT !.events = @ \o o.events, !.pc = "except",
                 !.caught = [kind |-> "raise", msg |-> o.msg]]

\* run(driver, context): UJBot(driver) / NSFASBot(driver) with an empty event
\* list, then the first line of its run, emit("start", {"bot": ...})
EventStart ==
  /\ adapter.pc = "new"
  /\ adapter.kind \in EventAdapters
  /\ CalledNow(adapter.kind)
  /\ adapter' = [adapter EXCEPT !.pc = "try", !.events = <<StartEvent(adapter.kind)>>]
  /\ UNCHANGED <<pushing, fh, click, mail, adapterCalls, files, peer, web, applicant_payload, botsArg, max_workers, sinkGS,
                 sinkSB, pc, bots, task, adapterDid, retval, waiterInstalled,
                 finished_futures, yieldList, pending, collected, results,
                 started_at, out, artifacts, pushLog, exc, finishOrder>>

\* one call of the try block
EventStep ==
  /\ adapter.pc = "try"
  /\ adapter.kind \in EventAdapters
  /\ adapter.at <= Len(EventSteps(adapter.kind))
  /\ \E o \in EventStepOutcomes(adapter.kind, EventSteps(adapter.kind)[adapter.at]) :
       adapter' = AfterEventStep(adapter, o)
  /\ UNCHANGED <<pushing, fh, click, mail, adapterCalls, files, peer, web, applicant_payload, botsArg, max_workers, sinkGS,
                 sinkSB, pc, bots, task, adapterDid, retval, waiterInstalled,
                 finished_futures, yieldList, pending, collected, results,
                 started_at, out, artifacts, pushLog, exc, finishOrder>>

\* the last line of the try block, emit("done", {"ok": True}), and the return
EventDone ==
  /\ adapter.pc = "try"
  /\ adapter.kind \in EventAdapters
  /\ adapter.at > Len(EventSteps(adapter.kind))
  /\ LET evs == Append(adapter.events, DoneEvent(TRUE, ""))
     IN adapter' = [adapter EXCEPT !.events = evs, !.pc = "returned",
                                   !.result = [events |-> evs]]
  /\ UNCHANGED <<pushing, fh, click, mail, adapterCalls, files, peer, web, applicant_payload, botsArg, max_workers, sinkGS,
                 sinkSB, pc, bots, task, adapterDid, retval, waiterInstalled,
                 finished_futures, yieldList, pending, collected, results,
                 started_at, out, artifacts, pushLog, exc, finishOrder>>

\* `except Exception as e`: emit("done", {"ok": False, "error": str(e)}), and
\* the return
EventExcept ==
  /\ adapter.pc = "except"
  /\ adapter.kind \in EventAdapters
  /\ LET evs == Append(adapter.events, DoneEvent(FALSE, adapter.caught.msg))
     IN adapter' = [adapter EXCEPT !.events = evs, !.pc = "returned",
                                   !.result = [events |-> evs]]
  /\ UNCHANGED <<pushing, fh, click, mail, adapterCalls, files, peer, web, applicant_payload, botsArg, max_workers, sinkGS,
                 sinkSB, pc, bots, task, adapterDid, retval, waiterInstalled,
                 finished_futures, yieldList, pending, collected, results,
                 started_at, out, artifacts, pushLog, exc, finishOrder>>

\* one call of run of uj_bot or nsfas_bot; no run of the orchestrator
EventInit ==
  /\ applicant_payload = JsonPayload
  /\ botsArg = <<>> /\ max_workers = 1
  /\ sinkGS = "unset" /\ sinkSB = "unset"
  /\ pc = "idle" /\ bots = <<>> /\ task = <<>> /\ adapterDid = <<>> /\ retval = <<>>
  /\ waiterInstalled = FALSE /\ finished_futures = <<>> /\ yieldList = <<>>
  /\ pending = {} /\ collected = <<>> /\ results = <<>>
  /\ started_at = 0 /\ out = None /\ artifacts = <<>> /\ pushLog = <<>>
  /\ exc = None /\ finishOrder = <<>> /\ adapterCalls = <<>>
  /\ files = EmptyDir
  /\ pushing = <<>>
  /\ fh = None
  /\ peer = NoPeer
  /\ web = NoWeb
  /\ mail = NoMail
  /\ adapter \in {[NoAdapter EXCEPT !.kind = k, !.pc = "import"] : k \in EventAdapters}
  /\ click = NoClick

EventNext ==
  \/ AdapterImport
  \/ EventStart
  \/ EventStep
  \/ EventDone
  \/ EventExcept

EventSpec == EventInit /\ [][EventNext]_vars

\* ------------------------------------------------ WitsBot.retry_click
\* wits_bot.py lines 62-71 (StellenboschBot.retry_click, lines 65-76, has the
\* same loop). click.tries: the outcome of each attempt; click.sleeps: the
\* argument of each time.sleep call; click.attempt: the loop variable

\* what one attempt does: wait.until times out, elem.click() raises, or the
\* click is made
ClickOutcomes == {"timeout", "click_fault", "clicked"}

\* variant: the wait grows by one second per attempt
Backoff_Linear(attempt) == attempt + 1

\* line 70: time.sleep(2 ** attempt)
Backoff(attempt) == 2 ^ attempt

\* line 63: for attempt in range(max_attempts)
LoopHasNext(c) == c.attempt < c.max

\* lines 64-67 and the entry of the handler at line 68: one attempt; a click
\* that is made returns at once
RetryTry ==
  /\ click.pc = "loop"
  /\ LoopHasNext(click)
  /\ \E o \in ClickOutcomes :
       click' = [click EXCEPT !.tries = Append(@, o),
                              !.pc = IF o = "clicked" THEN "returned" ELSE "except"]
  /\ UNCHANGED <<pushing, fh, adapter, mail, adapterCalls, files, peer, web, applicant_payload, botsArg,
                 max_workers, sinkGS, sinkSB, pc, bots, task, adapterDid,
                 retval, waiterInstalled, finished_futures, yieldList, pending,
                 collected, results, started_at, out, artifacts, pushLog,
                 exc, finishOrder>>

\* lines 69-70: the warning is logged, the thread sleeps, and the loop goes
\* on with the next value of attempt
RetrySleep ==
  /\ click.pc = "except"
  /\ click' = [click EXCEPT !.sleeps = Append(@, Backoff(click.attempt)),
                            !.attempt = @ + 1,
                            !.pc = "loop"]
  /\ UNCHANGED <<pushing, fh, adapter, mail, adapterCalls, files, peer, web, applicant_payload, botsArg,
                 max_workers, sinkGS, sinkSB, pc, bots, task, adapterDid,
                 retval, waiterInstalled, finished_futures, yieldList, pending,
                 collected, results, started_at, out, artifacts, pushLog,
                 exc, finishOrder>>

\* line 71: the loop ran out
RetryExhausted ==
  /\ click.pc = "loop"
  /\ ~LoopHasNext(click)
  /\ click' = [click EXCEPT !.pc = "raised",
                            !.exc = [kind |-> "Exception", msg |-> "Could not click"]]
  /\ UNCHANGED <<pushing, fh, adapter, mail, adapterCalls, files, peer, web, applicant_payload, botsArg,
                 max_workers, sinkGS, sinkSB, pc, bots, task, adapterDid,
                 retval, waiterInstalled, finished_futures, yieldList, pending,
                 collected, results, started_at, out, artifacts, pushLog,
                 exc, finishOrder>>

\* one call retry_click(by, selector, max_attempts)
RetryInit ==
  /\ applicant_payload = JsonPayload
  /\ botsArg = <<>> /\ max_workers = 1
  /\ sinkGS = "unset" /\ sinkSB = "unset"
  /\ pc = "idle" /\ bots = <<>> /\ task = <<>> /\ adapterDid = <<>> /\ retval = <<>>
  /\ waiterInstalled = FALSE /\ finished_futures = <<>> /\ yieldList = <<>>
  /\ pending = {} /\ collected = <<>> /\ results = <<>>
  /\ started_at = 0 /\ out = None /\ artifacts = <<>> /\ pushLog = <<>>
  /\ exc = None /\ finishOrder = <<>> /\ adapterCalls = <<>>
  /\ files = EmptyDir
  /\ pushing = <<>>
  /\ fh = None
  /\ peer = NoPeer
  /\ web = NoWeb
  /\ mail = NoMail
  /\ adapter = NoAdapter
  /\ click \in {[NoClick EXCEPT !.pc = "loop", !.max = m] : m \in 0..MaxAttempts}

RetryNext ==
  \/ RetryTry
  \/ RetrySleep
  \/ RetryExhausted

RetrySpec == RetryInit /\ [][RetryNext]_vars

\* run_parallel_bots(payload, ["wits"]) with the WitsBot call of its work
\* item followed step by step from its constructor (wits_bot is a module the
\* orchestrator has imported when run_parallel_bots is called), the Google
\* Sheets sink set, and either applicant payload
PayloadInit ==
  /\ applicant_payload \in ApplicantPayloads
  /\ botsArg = <<"wits">>
  /\ max_workers = 1
  /\ sinkGS \in {"up", "down"} /\ sinkSB = "unset"
  /\ pc = "begin" /\ bots = <<>> /\ task = <<>> /\ adapterDid = <<>> /\ retval = <<>>
  /\ waiterInstalled = FALSE /\ finished_futures = <<>> /\ yieldList = <<>>
  /\ pending = {} /\ collected = <<>> /\ results = <<>>
  /\ started_at = 0 /\ out = None /\ artifacts = <<>> /\ pushLog = <<>>
  /\ exc = None /\ finishOrder = <<>> /\ adapterCalls = <<>>
  /\ files = EmptyDir
  /\ pushing = <<>>
  /\ fh = None
  /\ peer = NoPeer
  /\ web = NoWeb
  /\ mail = NoMail
  /\ adapter = [NoAdapter EXCEPT !.kind = "wits", !.pc = "new"]
  /\ click = NoClick

PayloadNext ==
  \/ Next
  \/ AdapterNew
  \/ AdapterStep
  \/ AdapterExcept
  \/ AdapterFinally

PayloadSpec == PayloadInit /\ [][PayloadNext]_vars

\* the steps of the thread that called run_parallel_bots
MainThread ==
  \/ Begin
  \/ Submit
  \/ AsCompleted
  \/ WaitCompleted
  \/ CollectOne
  \/ PushBotResult
  \/ ExitWith
  \/ Seal
  \/ OpenArtifact
  \/ WriteArtifact
  \/ PushCompleteAndReturn

\* the progress checks take the runs whose one sink fails: a failing push
\* never blocks the loop
LiveInit == Init /\ sinkGS = "down"

\* the calling thread keeps running (urlopen has a timeout of 10 s); nothing
\* is assumed of the workers: an adapter may never start or never end
FairSpec == LiveInit /\ [][Next]_vars /\ WF_vars(MainThread)

\* every adapter call ends (it returns or raises) and a free worker takes the
\* next queued work item; the calling thread keeps running, each urlopen
\* returning or timing out after 10 s
TermSpec ==
  /\ LiveInit
  /\ [][Next]_vars
  /\ WF_vars(MainThread)
  /\ WF_vars(\E k \in 1..Len(task) : Start(k))
  /\ WF_vars(\E k \in 1..Len(task) : RunBotEnds(k))

\* ---------------------------------------------------------------- claims
Count(s, x) == Cardinality({i \in 1..Len(s) : s[i] = x})
Pos(s, x) == CHOOSE i \in 1..Len(s) : s[i] = x
OkEntry(k) == [bot |-> BotOf(k), result |-> adapterDid[k].payload]
ErrEntry(k) == [bot |-> BotOf(k), error |-> adapterDid[k].msg]
LoopLeft == pc \in {"seal", "write", "writing", "push_complete", "returned", "raised"}
BotFields(rs) == [i \in 1..Len(rs) |-> rs[i].bot]

\* C1: the returned record's results has as many entries as the input list,
\* and each identifier occurs among the "bot" fields as often as in the input
\* (a repeated identifier gives one entry per occurrence).
C1_ResultsMatchInput ==
  pc = "returned" =>
    /\ Len(out.results) = Len(botsArg)
    /\ \A id \in BotIdPool : Count(BotFields(out.results), id) = Count(botsArg, id)

\* a run of the same identifier twice, one occurrence raising, has returned
C1_Witness ==
  /\ pc = "returned"
  /\ Len(botsArg) = 2 /\ botsArg[1] = botsArg[2]
  /\ adapterDid[1].kind = "raise" /\ adapterDid[2].kind = "ok"

\* C2: when adapter A raises and adapter B returns payload p in the same run,
\* B's future holds {"bot": B, "result": p} and, once the loop is left, that
\* entry is in results at B's position, whatever the order of completion.
C2_SiblingIsolation ==
  \A a, b \in 1..Len(task) :
    (a # b /\ adapterDid[a].kind = "raise" /\ adapterDid[b].kind = "ok") =>
      /\ retval[b] = [kind |-> "result", value |-> OkEntry(b)]
      /\ LoopLeft => \E i \in 1..Len(results) : collected[i] = b /\ results[i] = OkEntry(b)

\* A raised and ended before B ended, and the run returned B's payload
C2_Witness ==
  /\ pc = "returned"
  /\ \E a, b \in 1..Len(task) :
       /\ adapterDid[a].kind = "raise" /\ adapterDid[b].kind = "ok"
       /\ Pos(finishOrder, a) < Pos(finishOrder, b)
       /\ \E i \in 1..Len(out.results) : out.results[i] = OkEntry(b)

\* C3: a fault raised by an adapter is recorded as {"bot": name, "error":
\* message} in that work item's future, never leaves run_parallel_bots as an
\* exception, and a run that returns hands back one entry per requested bot
\* with the fault's entry among them.
C3_FaultsContained ==
  /\ \A k \in 1..Len(task) :
       adapterDid[k].kind = "raise" =>
         /\ retval[k] = [kind |-> "result", value |-> ErrEntry(k)]
         /\ LoopLeft => \E i \in 1..Len(results) : collected[i] = k /\ results[i] = ErrEntry(k)
  /\ exc.kind # "bot"
  /\ pc = "returned" => Len(out.results) = Len(bots)

\* every adapter of a two-bot run raised and the run returned
C3_Witness ==
  /\ pc = "returned"
  /\ Len(task) = 2
  /\ \A k \in 1..Len(task) : adapterDid[k].kind = "raise"

\* C4: an identifier outside the known keys yields {"bot": id, "error":
\* "Unknown bot: <id>"} and no exception; dispatching ["unknown"] returns
\* results = [{"bot": "unknown", "error": "Unknown bot: unknown"}].
C4_UnknownBotError ==
  /\ \A k \in 1..Len(task) :
       (BotOf(k) = "unknown" /\ task[k] = "done") =>
         retval[k] = [kind |-> "result",
                      value |-> [bot |-> "unknown", error |-> "Unknown bot: unknown"]]
  /\ exc.kind # "bot"
  /\ (botsArg = <<"unknown">> /\ pc = "returned") =>
        out.results = <<[bot |-> "unknown", error |-> "Unknown bot: unknown"]>>

\* the run of ["unknown"] has returned
C4_Witness == pc = "returned" /\ botsArg = <<"unknown">>

\* C5 (as claimed): an unknown identifier gets its error without any adapter
\* being run for it and without waiting for another identifier's adapter: its
\* work item is never queued behind an executing adapter that occupies the pool.
C5_UnknownNeverWaits ==
  \A k \in 1..Len(task) :
    ~Resolves(BotOf(k)) =>
      /\ adapterDid[k] = None
      /\ task[k] = "queued" =>
           ~(\E j \in Executing : j # k /\ ~WorkerAvailable(Cardinality(Busy), max_workers))

\* C6: the adapters executing at one moment never outnumber max_workers, as
\* do the occupied workers; with max_workers = 1 the work items end one after
\* another in submission order.
C6_PoolBound ==
  /\ Cardinality(Executing) <= max_workers
  /\ Cardinality(Busy) <= max_workers
  /\ max_workers = 1 => \A i \in 1..Len(finishOrder) : finishOrder[i] = i

\* with max_workers = 2 two adapters are executing at the same time
C6_Witness == max_workers >= 2 /\ Cardinality(Executing) = 2

\* C7 (as claimed): once the record exists, ended_at >= started_at and every
\* requested bot has been collected: results has an entry for every work
\* item, all of which are finished.
C7_SealedAfterAll ==
  out # None =>
    /\ out.ended_at >= out.started_at
    /\ Len(out.results) = Len(bots)
    /\ \A k \in 1..Len(bots) :
         /\ task[k] = "done"
         /\ \E i \in 1..Len(out.results) : collected[i] = k /\ out.results[i] = retval[k].value

\* the record is sealed only when every requested bot has its result
SealedWhenComplete ==
  out # None =>
    /\ Len(out.results) = Len(bots)
    /\ \A k \in 1..Len(bots) :
         /\ task[k] = "done"
         /\ \E i \in 1..Len(out.results) : collected[i] = k /\ out.results[i] = retval[k].value

\* C8 (as claimed): the entries of results are in the order in which the
\* adapters' work items completed.
C8_CompletionOrder ==
  \A i, j \in 1..Len(results) :
    i < j => Pos(finishOrder, collected[i]) < Pos(finishOrder, collected[j])

\* C9 (as claimed): a failed write of the run artifact does not fail the run.
C9_WriteFailureDoesNotFailRun == ~(pc = "raised" /\ exc.kind = "persistence")

\* C10 (as claimed): a failed push never leaves run_parallel_bots as an
\* exception, never changes results (entry i is what the i-th collected
\* future holds), and is not retried: per configured sink there is one
\* bot_result attempt per entry of results, in order (made, or still to be
\* made by the push under way), and at most one run_complete attempt.
SinkAttempts(sink, event) ==
  SelectSeq(pushLog, LAMBDA a : a.sink = sink /\ a.payload.event = event)

\* the attempts the push under way has yet to make
ToMake(sink, event) ==
  SelectSeq(pushing, LAMBDA a : a.sink = sink /\ a.payload.event = event)

C10_PushFailureSwallowed ==
  /\ exc.kind # "push"
  /\ Len(results) = Len(collected)
  /\ \A i \in 1..Len(results) : results[i] = retval[collected[i]].value
  /\ \A sink \in {"gs", "sb"} :
       /\ Len(SinkAttempts(sink, "bot_result")) + Len(ToMake(sink, "bot_result"))
            \in {0, Len(results)}
       /\ \A i \in 1..Len(SinkAttempts(sink, "bot_result")) :
            SinkAttempts(sink, "bot_result")[i].payload.bot = results[i].bot
       /\ Len(SinkAttempts(sink, "run_complete")) + Len(ToMake(sink, "run_complete")) <= 1

\* a push fault leaves run_parallel_bots only from json.dumps (line 79),
\* before any urlopen of that push; a failed urlopen is swallowed
OnlyDumpsPropagates ==
  /\ exc.kind = "push" => ~Serializable(applicant_payload) /\ pushLog = <<>>
  /\ (\E i \in 1..Len(pushLog) : ~pushLog[i].ok) => exc.kind # "push"

\* both sinks are down, every push of a two-bot run failed, the run returned
UrlopenFailuresSwallowed ==
  /\ pc = "returned"
  /\ Len(out.results) = 2
  /\ sinkGS = "down" /\ sinkSB = "down"
  /\ Len(pushLog) = 6
  /\ \A i \in 1..Len(pushLog) : ~pushLog[i].ok

\* the configured sinks, in the order _push_dashboard visits them
ConfiguredSinks ==
  (IF sinkGS # "unset" THEN <<"gs">> ELSE <<>>) \o (IF sinkSB # "unset" THEN <<"sb">> ELSE <<>>)

EventAttempts(event) == SelectSeq(pushLog, LAMBDA a : a.payload.event = event)

\* C11 (as claimed): with a sink configured, each collected result gets exactly one
\* bot_result push per configured sink, made before any later result is
\* collected: the bot_result attempts, those made followed by those the push
\* of the newest result has yet to make, are, result by result and sink by
\* sink, exactly the pushes of results[1], results[2], ...; no result is
\* collected while a push is under way.
C11_OnePushPerResult ==
  LET n == Len(ConfiguredSinks)
      B == EventAttempts("bot_result")
              \o SelectSeq(pushing, LAMBDA a : a.payload.event = "bot_result")
  IN /\ Len(B) = n * Len(results)
     /\ (\E i \in 1..Len(pushing) : pushing[i].payload.event = "bot_result") => pc = "push"
     /\ \A j \in 1..Len(B) :
          LET r == results[((j - 1) \div n) + 1]
          IN /\ B[j].sink = ConfiguredSinks[((j - 1) % n) + 1]
             /\ B[j].payload.bot = r.bot
             /\ B[j].payload.status = (IF "error" \in DOMAIN r THEN "error" ELSE "ok")

\* the first result has been pushed to both sinks while another adapter of the
\* run is still executing
StreamedWhileSiblingRuns ==
  /\ Len(ConfiguredSinks) = 2
  /\ Len(results) = 1
  /\ Len(EventAttempts("bot_result")) = 2
  /\ \E k \in 1..Len(task) : task[k] = "running" /\ Resolves(BotOf(k))

\* a collected result is left without any bot_result attempt only by the
\* TypeError of json.dumps, which ends the loop at that result
UnpushedOnlyByDumps ==
  LET n == Len(ConfiguredSinks)
      B == EventAttempts("bot_result")
              \o SelectSeq(pushing, LAMBDA a : a.payload.event = "bot_result")
  IN IF Serializable(applicant_payload)
     THEN Len(B) = n * Len(results)
     ELSE /\ B = <<>>
          /\ n > 0 => Len(results) <= 1

\* C12 (as claimed): with a sink configured, a run that has ended has pushed
\* exactly one run_complete event per sink, carrying the sealed record, after
\* the record was sealed and after every bot_result event.
C12_OneRunComplete ==
  (pc \in {"returned", "raised"} /\ DASHBOARD_PUSH_ENABLED) =>
    /\ out # None
    /\ \A i \in 1..Len(ConfiguredSinks) :
         LET A == SinkAttempts(ConfiguredSinks[i], "run_complete")
         IN Len(A) = 1 /\ A[1].payload.summary = out
    /\ \A i, j \in 1..Len(pushLog) :
         (pushLog[i].payload.event = "run_complete" /\ pushLog[j].payload.event = "bot_result")
           => j < i

\* C13: whether or not the other adapters of the run ever end, a work item
\* whose future has completed gets its result appended to results (and, by
\* C11, pushed), for every max_workers and submission order.
C13_FinishedSiblingCollected ==
  \A k \in 1..MaxBots :
    (k <= Len(task) /\ task[k] = "done")
      ~> (\E i \in 1..Len(results) : collected[i] = k /\ results[i] = retval[k].value)

\* an adapter submitted first is still executing while the result of a later
\* sibling is already in results
C13_Witness ==
  \E k, j \in 1..Len(task) :
    /\ k < j
    /\ task[k] = "running" /\ Resolves(BotOf(k))
    /\ \E i \in 1..Len(results) : collected[i] = j /\ results[i] = retval[j].value

\* C14: by the time the record is built, every submitted work item has run
\* to completion: there is a work item per list position, each one is done,
\* and the adapter behind every resolved identifier has been invoked.
C14_AllRanBeforeSeal ==
  LoopLeft =>
    /\ Len(task) = Len(bots)
    /\ \A k \in 1..Len(task) :
         /\ task[k] = "done"
         /\ retval[k] # None
         /\ Resolves(BotOf(k)) => adapterDid[k] # None

\* two work items went through a single worker and the record was built
C14_Witness ==
  /\ pc = "write"
  /\ max_workers = 1
  /\ Len(task) = 2
  /\ \A k \in 1..2 : Resolves(BotOf(k)) /\ adapterDid[k] # None

\* C15: results is extended by the calling thread only, once per collected
\* future: entry i is the value of the i-th collected future, no future is
\* collected twice, and after the loop every work item has exactly one entry.
C15_NoLostAppend ==
  /\ Len(results) <= Len(collected)
  /\ \A i, j \in 1..Len(collected) : collected[i] = collected[j] => i = j
  /\ exc = None =>
       /\ Len(results) = Len(collected)
       /\ \A i \in 1..Len(results) : results[i] = retval[collected[i]].value
  /\ (LoopLeft /\ exc = None) =>
       \A k \in 1..Len(task) : Count(collected, k) = 1

\* two workers completed both futures before either was collected, and the
\* loop received them in the other order
C15_Witness ==
  /\ pc = "returned"
  /\ max_workers = 2
  /\ Len(results) = 2
  /\ collected # finishOrder

\* C16: the adapter behind a list position is invoked at most once per run:
\* never for an unresolved identifier, never again after it raised, and
\* exactly once for a resolved identifier whose work item is done, unless
\* building the applicant or the bot raised before the adapter could be run.
C16_AtMostOnce ==
  /\ Len(task) <= Len(bots)
  /\ \A k \in 1..Len(task) :
       /\ Count(adapterCalls, k) <= 1
       /\ ~Resolves(BotOf(k)) => Count(adapterCalls, k) = 0
       /\ (Resolves(BotOf(k)) /\ task[k] = "done") =>
            Count(adapterCalls, k) = (IF adapterDid[k].kind = "raise" /\ ~adapterDid[k].called
                                      THEN 0 ELSE 1)

\* a run returned in which an adapter raised and was not called again
C16_Witness ==
  /\ pc = "returned"
  /\ \E k \in 1..Len(task) :
       /\ Resolves(BotOf(k))
       /\ adapterDid[k].kind = "raise"
       /\ Count(adapterCalls, k) = 1

\* C17: every entry of results has a "bot" key, the identifier of the work
\* item it came from, and exactly one of the keys "result" and "error".
C17_EntryShape ==
  /\ \A i \in 1..Len(results) :
       /\ DOMAIN results[i] \in {{"bot", "result"}, {"bot", "error"}}
       /\ i <= Len(collected) => results[i].bot = BotOf(collected[i])
  /\ \A k \in 1..Len(task) :
       retval[k] # None => DOMAIN retval[k].value \in {{"bot", "result"}, {"bot", "error"}}
  /\ LoopLeft =>
       \A k \in 1..Len(task) :
         \E i \in 1..Len(results) : collected[i] = k /\ results[i] = retval[k].value

\* a returned run holds one entry of each shape
C17_Witness ==
  /\ pc = "returned"
  /\ \E i, j \in 1..Len(results) :
       /\ DOMAIN results[i] = {"bot", "result"}
       /\ DOMAIN results[j] = {"bot", "error"}

\* the successful writes of one invocation
WritesOf(r) == SelectSeq(artifacts, LAMBDA w : w.run = r)

\* C18 (as claimed): any two invocations write to two distinct artifact
\* files: the file tokens of writes made by different runs differ, and the
\* file a run opens is not one the other run has opened or written.
C18_DistinctFiles ==
  /\ \A i, j \in 1..Len(artifacts) :
       artifacts[i].run # artifacts[j].run => artifacts[i].token # artifacts[j].token
  /\ (fh # None /\ peer.fh # None) => fh.token # peer.fh.token
  /\ \A i \in 1..Len(artifacts) :
       /\ (artifacts[i].run = "peer" /\ fh # None) => fh.token # artifacts[i].token
       /\ (artifacts[i].run = "main" /\ peer.fh # None) => peer.fh.token # artifacts[i].token

\* both invocations wrote, and a single file is left
TwoRunsOneFile ==
  /\ Len(WritesOf("main")) = 1
  /\ Len(WritesOf("peer")) = 1
  /\ Cardinality(DOMAIN files) = 1

\* what holds of the two invocations apart from the content of the file:
\* each writes once, after sealing, the record it sealed
WritesOnceAfterSeal ==
  /\ Len(WritesOf("main")) <= 1
  /\ Len(WritesOf("peer")) <= 1
  /\ Len(WritesOf("main")) = 1 <=> pc \in {"push_complete", "returned"}
  /\ Len(WritesOf("peer")) = 1 <=> peer.pc \in {"push_complete", "returned"}
  /\ \A i \in 1..Len(artifacts) :
       LET w == artifacts[i]
       IN /\ w.record = (IF w.run = "main" THEN out ELSE peer.out)
          /\ w.record # None
          /\ w.token \in DOMAIN files

\* both invocations returned normally and the one file they wrote holds the
\* record of one followed by the last bytes of the other's
GarbledArtifact ==
  /\ pc = "returned" /\ peer.pc = "returned"
  /\ \E t \in DOMAIN files : "tail" \in DOMAIN files[t]

\* C19 (as claimed): each invocation writes its artifact once and only after
\* sealing, and the artifact of a run holds the results of that run and of
\* no other: the file a run wrote keeps the record that run sealed.
C19_OwnedPersistedOnce ==
  /\ Len(WritesOf("main")) <= 1
  /\ Len(WritesOf("peer")) <= 1
  /\ Len(WritesOf("main")) = 1 <=> pc \in {"push_complete", "returned"}
  /\ Len(WritesOf("peer")) = 1 <=> peer.pc \in {"push_complete", "returned"}
  /\ \A i \in 1..Len(artifacts) :
       LET w == artifacts[i]
       IN /\ w.record = (IF w.run = "main" THEN out ELSE peer.out)
          /\ w.record # None
          /\ files[w.token] = w.record

\* the requests handled so far that were POSTs to the configured path
OnPath == {i \in 1..Len(web.responses) : web.responses[i].path = WEBHOOK_PATH}

\* C20 (as claimed): every POST to the configured path, whatever its body, is
\* answered with the acknowledgment {"status": "accepted"}, and the response
\* does not wait for the run it started: it can be written while the run is
\* still under way.
C20_AlwaysAccepted ==
  /\ \A i \in OnPath :
       /\ web.responses[i].status = 200
       /\ web.responses[i].reply = "accepted"
  /\ (web.handling # None /\ web.handling.pc = "reply") => ENABLED Reply

\* the request was one the handler goes through with: its Content-Length is
\* a number and its body is one the mapping takes
GoesThrough(r) == r.length_ok /\ MapTypeform(ParseBody(r.body)).kind = "ok"

\* the requests the handler does acknowledge: their run was started and is
\* not waited for, whatever it has done by then
AcceptedDetached ==
  /\ \A i \in OnPath :
       GoesThrough(web.responses[i]) =>
         /\ web.responses[i].status = 200
         /\ web.responses[i].reply = "accepted"
         /\ web.responses[i].thread \in 1..Len(web.threads)
  /\ (web.handling # None /\ web.handling.pc = "reply") =>
       /\ web.threads[web.handling.thread].state \in {"running", "writing", "ended", "raised"}
       /\ ENABLED Reply

\* the identifiers of a sequence, as a set
Ids(b) == {b[i] : i \in 1..Len(b)}

\* C21: when `bots` is omitted the run dispatches exactly the identifiers
\* that _run_bot resolves, each once: no work item ends in "Unknown bot" and
\* the returned record has one entry per registered identifier.
C21_DefaultIsRegistered ==
  (botsArg = <<>> /\ pc # "begin") =>
    /\ Ids(bots) = KnownBots
    /\ Len(bots) = Cardinality(KnownBots)
    /\ \A k \in 1..Len(task) :
         /\ Resolves(BotOf(k))
         /\ retval[k] # None =>
              retval[k].value = (IF adapterDid[k].kind = "ok" THEN OkEntry(k) ELSE ErrEntry(k))
    /\ pc = "returned" => Ids(BotFields(out.results)) = KnownBots

\* a default run returned its five entries, one of them an adapter's fault
C21_Witness ==
  /\ botsArg = <<>>
  /\ pc = "returned"
  /\ Len(out.results) = 5
  /\ \E i \in 1..5 : "error" \in DOMAIN out.results[i]
  /\ \E i \in 1..5 : "result" \in DOMAIN out.results[i]

\* the values of the futures in the order the loop received them
CollectedValues == [i \in 1..Len(collected) |-> retval[collected[i]].value]

\* C22: an absent integration is a no-op and never an error: with no sink
\* set nothing is pushed, with an SMTP setting missing _send_email opens no
\* connection and does not raise, no exception comes from either, and the
\* returned record is made of the bots' outcomes alone, whatever is set.
C22_AbsentIsNoOp ==
  /\ (sinkGS = "unset" /\ sinkSB = "unset") => pushLog = <<>>
  /\ \A i \in 1..Len(mail.calls) :
       /\ ~mail.calls[i].raised
       /\ ~(mail.user /\ mail.pass /\ mail.to) =>
            ~mail.calls[i].connected /\ ~mail.calls[i].sent
  /\ exc \in {None, [kind |-> "persistence"]}
  /\ pc = "returned" =>
       out = SealRecord(started_at, out.ended_at, CollectedValues)

\* a run returned with no sink and no recipient set, after the announcement
C22_Witness ==
  /\ pc = "returned"
  /\ sinkGS = "unset" /\ sinkSB = "unset"
  /\ mail.user /\ mail.pass /\ ~mail.to
  /\ Len(mail.calls) = 1
  /\ Len(out.results) = 1

\* the requests that have gone through _audit, in arrival order
Audited ==
  web.responses \o (IF web.handling # None THEN <<web.handling>> ELSE <<>>)

\* a line for each on-path request whose audit write went through
RECURSIVE LoggedLines(_)
LoggedLines(rs) ==
  IF rs = <<>> THEN <<>>
  ELSE LET r == rs[Len(rs)]
           before == LoggedLines(SubSeq(rs, 1, Len(rs) - 1))
       IN IF r.path = WEBHOOK_PATH /\ r.logged
          THEN Append(before, AuditEntry("typeform_webhook_received", ParseBody(r.body)))
          ELSE before

\* C23 (as claimed): the audit log holds one line per POST on the configured
\* path, in arrival order, with every earlier line kept; a POST whose audit
\* write failed is answered as it would have been.
C23_AuditAppendOnly ==
  /\ web.audit = LoggedLines(Audited)
  /\ \A i \in OnPath :
       web.responses[i].status = (IF GoesThrough(web.responses[i]) THEN 200 ELSE 0)

\* the adapter call is over: it returned or an exception left it
AdapterOver == adapter.pc \in {"returned", "raised"}

\* the four operations the release rule is stated for: WitsBot.run,
\* StellenboschBot.run, run_sample and process_application
NamedAdapters == {"wits", "stellenbosch", "uct", "template"}

\* C24: for StellenboschBot.run, WitsBot.run, run_sample and
\* process_application, whenever the call created its own browser session,
\* driver.quit() has been called by the time the call is over, whether it
\* returned a success result, a failure result, or raised.
C24_SessionReleased ==
  (AdapterOver /\ adapter.kind \in NamedAdapters /\ adapter.own) =>
    adapter.quits >= 1 /\ adapter.driver = "quit"

\* WitsBot.run returned a failed BotResult after a step raised, with the
\* session it had created itself closed
C24_Witness ==
  /\ adapter.kind = "wits"
  /\ adapter.pc = "returned"
  /\ adapter.own
  /\ adapter.caught # None
  /\ adapter.quits = 1

\* main of gmail_bot.py, which the rule does not name, is over with the
\* session GmailBot.setup_driver created still open
GmailSessionLeftOpen ==
  AdapterOver /\ adapter.kind = "gmail" /\ adapter.own /\ adapter.driver = "open"

\* C25: the status of a per-bot event is "error" exactly when the collected
\* entry has an "error" key; a payload is not looked into: what the adapter
\* returned is recorded under "result" and pushed with status "ok", also when
\* the payload itself reports a failure.
C25_StatusFromKeyOnly ==
  LET n == Len(ConfiguredSinks)
      B == EventAttempts("bot_result")
  IN /\ \A j \in 1..Len(B) :
          LET r == results[((j - 1) \div n) + 1]
          IN /\ (B[j].payload.status = "error") <=> ("error" \in DOMAIN r)
             /\ (B[j].payload.status = "ok") <=> ("result" \in DOMAIN r)
             /\ "result" \in DOMAIN r => B[j].payload.result = r.result
     /\ \A k \in 1..Len(task) :
          (adapterDid[k] # None /\ adapterDid[k].kind = "ok") =>
            retval[k].value = [bot |-> BotOf(k), result |-> adapterDid[k].payload]

\* WitsBot.run returned a failed BotResult and the event was pushed as "ok"
C25_Witness ==
  \E j \in 1..Len(pushLog) :
    /\ pushLog[j].payload.event = "bot_result"
    /\ pushLog[j].payload.status = "ok"
    /\ ~pushLog[j].payload.result.success
    /\ pushLog[j].payload.result.payment_status = "FAILED"

\* _push_dashboard has been called for the sealed record (line 142)
RunCompleteCalled ==
  DASHBOARD_PUSH_ENABLED
    /\ (pc \in {"push_complete", "returned"} \/ (pc = "raised" /\ exc.kind = "push" /\ out # None))

\* the calls of _push_dashboard made so far: one per collected result while
\* a sink is set, and one for the sealed record
PushCalls ==
  (IF DASHBOARD_PUSH_ENABLED THEN Len(results) ELSE 0) + (IF RunCompleteCalled THEN 1 ELSE 0)

\* C26 (as claimed): every push is attempted once on each configured sink,
\* in the order Google Sheets, Supabase, whether or not the attempt before
\* it failed; no attempt is made on a sink that is not configured.
C26_SinksIndependent ==
  LET n == Len(ConfiguredSinks)
  IN /\ n = 0 => pushLog = <<>>
     /\ Len(pushLog) + Len(pushing) = n * PushCalls
     /\ \A j \in 1..Len(pushLog) :
          LET pos == ((j - 1) % n) + 1
          IN /\ pushLog[j].sink = ConfiguredSinks[pos]
             /\ pushLog[j].payload = pushLog[j - pos + 1].payload
             /\ pushLog[j].ok = (IF pushLog[j].sink = "gs" THEN sinkGS = "up" ELSE sinkSB = "up")

\* the attempts that are made come sink by sink: a push whose body was built
\* goes to each configured sink, whether or not the attempt before it failed,
\* and to no sink that is not configured
BuiltPushReachesEverySink ==
  LET n == Len(ConfiguredSinks)
  IN /\ n = 0 => pushLog = <<>>
     /\ Serializable(applicant_payload) => Len(pushLog) + Len(pushing) = n * PushCalls
     /\ ~Serializable(applicant_payload) => pushLog = <<>> /\ pushing = <<>>
     /\ \A j \in 1..Len(pushLog) :
          LET pos == ((j - 1) % n) + 1
          IN /\ pushLog[j].sink = ConfiguredSinks[pos]
             /\ pushLog[j].payload = pushLog[j - pos + 1].payload
             /\ pushLog[j].ok = (IF pushLog[j].sink = "gs" THEN sinkGS = "up" ELSE sinkSB = "up")

\* the Google Sheets attempt failed and the same payload still went to
\* Supabase, in a run that returned
SecondSinkTriedAfterFailure ==
  \E j \in 1..(Len(pushLog) - 1) :
    /\ pushLog[j].sink = "gs" /\ ~pushLog[j].ok
    /\ pushLog[j + 1].sink = "sb" /\ pushLog[j + 1].ok
    /\ pushLog[j + 1].payload = pushLog[j].payload
    /\ pc = "returned"

Failed(o) == o # "clicked"

\* C27: retry_click makes at most max_attempts attempts and none after a click
\* that was made; the k-th failed attempt (k from 0) is followed by a sleep of
\* 2^k seconds; the call raises "Could not click" exactly when max_attempts
\* attempts were made and all of them failed, and returns otherwise.
C27_BoundedBackoff ==
  LET n == Len(click.tries)
      over == click.pc \in {"returned", "raised"}
      allFailed == \A i \in 1..n : Failed(click.tries[i])
  IN click.pc # "absent" =>
       /\ n <= click.max
       /\ \A i \in 1..(n - 1) : Failed(click.tries[i])
       /\ click.pc # "except" =>
            Len(click.sleeps) = Cardinality({i \in 1..n : Failed(click.tries[i])})
       /\ \A k \in 1..Len(click.sleeps) :
            /\ Failed(click.tries[k])
            /\ click.sleeps[k] = CASE k = 1 -> 1 [] k = 2 -> 2 [] k = 3 -> 4
                                      [] k = 4 -> 8 [] k = 5 -> 16 [] OTHER -> 0
       /\ over => ((click.pc = "raised") <=> (n = click.max /\ allFailed))
       /\ click.pc = "raised" => click.exc.msg = "Could not click"
       /\ click.pc = "returned" => (n >= 1 /\ click.tries[n] = "clicked")
       /\ (n = click.max /\ allFailed /\ click.pc = "loop") => ENABLED RetryExhausted

\* three attempts failed, each followed by its sleep of 1, 2 and 4 seconds,
\* and the call raised
C27_Witness ==
  /\ click.max = 3
  /\ click.pc = "raised"
  /\ click.sleeps = <<1, 2, 4>>
  /\ click.tries = <<"timeout", "click_fault", "timeout">>

\* C28 (as claimed): when every dispatched adapter call ends and every push
\* returns, run_parallel_bots eventually returns, for every max_workers and
\* every number of identifiers.
C28_EventuallyReturns == <>(pc = "returned")

IsPrefix(s, t) == Len(s) <= Len(t) /\ \A i \in 1..Len(s) : s[i] = t[i]
WitsSteps == SubSeq(Steps("wits"), 1, 9)
InErrors(a, msg) == \E i \in 1..Len(a.errors) : a.errors[i] = msg

\* C29: WitsBot.run never raises; its steps run in the order navigate,
\* create_profile, personal, academic, programs, documents, pay_fee, submit,
\* capture_confirmation and none runs after the first that raised; the
\* BotResult has success true only if every step completed and pay_fee
\* returned "PAID", and when a step raised it has success false,
\* payment_status "FAILED" and the fault's message in errors.
\* (stellenbosch_bot.py cannot be imported, so StellenboschBot.run never runs.)
C29_RunNeverRaises ==
  LET a == adapter
  IN /\ a.kind = "stellenbosch" => a.pc \in {"import", "import_error"}
     /\ a.kind = "wits" =>
          /\ a.pc = "raised" => (a.driver = "none" /\ a.done = <<>>)
          /\ IsPrefix(a.done, Steps("wits"))
          /\ a.caught # None => Len(a.done) = a.at - 1
          /\ a.pc \in {"finally", "returned"} =>
               /\ a.result # None
               /\ a.result.success =>
                    /\ a.caught = None
                    /\ IsPrefix(WitsSteps, a.done)
                    /\ a.payment = "PAID"
               /\ a.caught # None =>
                    /\ ~a.result.success
                    /\ a.result.payment_status = "FAILED"
                    /\ InErrors(a.result, a.caught.msg)
               /\ (a.caught = None /\ a.payment = "PAID") => a.result.success

\* pay_fee returned "PAID", submit raised: run returned a failed BotResult
\* that carries the message, and capture_confirmation was not run
C29_Witness ==
  /\ adapter.kind = "wits"
  /\ adapter.pc = "returned"
  /\ adapter.payment = "PAID"
  /\ adapter.caught # None
  /\ adapter.done = SubSeq(Steps("wits"), 1, 7)
  /\ adapter.result = [university |-> "Wits", payment_status |-> "FAILED",
                       success |-> FALSE, errors |-> <<adapter.caught.msg>>]

\* the events the steps at positions 1..n of the try block can emit
EventsUpTo(kind, n) ==
  UNION {{o.events[i] : i \in 1..Len(o.events)} :
           o \in UNION {EventStepOutcomes(kind, EventSteps(kind)[j]) :
                          j \in 1..n}}

\* C30: UJBot.run and NSFASBot.run never raise and return their event list:
\* its first event is "start", its last event is "done" and no other event
\* is; done.ok is true exactly when every step of the fixed order ran to
\* completion; once a step has raised, no later step emits an event.
C30_EventList ==
  LET a == adapter
      n == Len(a.events)
      steps == EventSteps(a.kind)
  IN a.kind \in EventAdapters =>
       /\ a.pc \notin {"raised", "import_error"} /\ a.exc = None
       /\ a.pc \in {"import", "new", "try", "except"} => ENABLED EventNext
       /\ n >= 1 => a.events[1] = StartEvent(a.kind)
       /\ \A i \in 2..n : a.events[i].type # "start"
       /\ IsPrefix(a.done, steps)
       /\ a.pc # "returned" => \A i \in 1..n : a.events[i].type # "done"
       /\ \A i \in 2..n :
            a.events[i].type # "done" =>
              a.events[i] \in EventsUpTo(a.kind, IF Len(a.done) < Len(steps)
                                                  THEN Len(a.done) + 1 ELSE Len(steps))
       /\ a.pc = "returned" =>
            /\ a.result = [events |-> a.events]
            /\ n >= 2
            /\ a.events[n].type = "done"
            /\ \A i \in 1..(n - 1) : a.events[i].type # "done"
            /\ a.events[n].ok <=> (a.done = steps)
            /\ a.events[n].ok <=> (a.caught = None)
            /\ ~a.events[n].ok => a.events[n].error = a.caught.msg

\* UJBot.run: step_academic_program raised after two completed steps; the
\* list ends with that step's error event and done with ok false
C30_Witness ==
  /\ adapter.kind = "uj"
  /\ adapter.pc = "returned"
  /\ adapter.done = <<"login_or_create", "step_personal_details">>
  /\ Len(adapter.result.events) = 8
  /\ adapter.result.events[1].type = "start"
  /\ adapter.result.events[6] = StepEvent("academic_program")
  /\ adapter.result.events[7].type = "error"
  /\ adapter.result.events[8] = [type |-> "done", ok |-> FALSE, error |-> adapter.caught.msg]
====
